---- MODULE Spec2Model ----
(***************************************************************************)
(* release-me: version increment engine, version schemes and changelog     *)
(* renderer.                                                               *)
(*                                                                         *)
(* A JavaScript string is modelled as a sequence of tokens: one token per  *)
(* character for the texts the code takes apart (versions, commit types,   *)
(* descriptions), one token for a literal the code only copies (a title,   *)
(* an increment kind).  `undefined` is the one-token sequence Undefined.   *)
(***************************************************************************)
EXTENDS Integers, Sequences, FiniteSets, TLC

VARIABLES
    branch,        \* branching.getBranch().type
    scheme,        \* core.getInput("versioning")
    prefix,        \* core.getInput("prefix")
    isPrerelease,  \* core.getBooleanInput("prerelease")
    now,           \* the clock read by CalVer.increment("CALENDAR")
    version,       \* the version handed to incrementVersion
    config,        \* what getConfigurationFromAPI() resolves to
    commits,       \* the commits handed to the scheme and the renderer
    out,           \* what the last operation returned
    argument,      \* the text handed to a parser (version, increment type, ref)
    input,         \* the inputs and the surroundings of one run of the action
    pc,            \* where run() is
    local,         \* the local variables of run()
    remote,        \* the releases and assets on GitHub
    outputs,       \* what core.setOutput has set
    failed         \* the messages handed to core.setFailed

runVars == <<input, pc, local, remote, outputs, failed>>

vars == <<branch, scheme, prefix, isPrerelease, now, version, config, commits, out,
          argument, runVars>>

----------------------------------------------------------------------------
(* Bounds *)

MaxCommits == 2
MaxCore == 1
MaxMicro == 1

----------------------------------------------------------------------------
(* Strings *)

Undefined == <<"undefined">>
Star == <<"*">>
Empty == <<>>

Lowers == <<"a", "b", "c", "d", "e", "f", "g", "h", "i", "j", "k", "l", "m",
            "n", "o", "p", "q", "r", "s", "t", "u", "v", "w", "x", "y", "z">>
Uppers == <<"A", "B", "C", "D", "E", "F", "G", "H", "I", "J", "K", "L", "M",
            "N", "O", "P", "Q", "R", "S", "T", "U", "V", "W", "X", "Y", "Z">>

toUpperCaseChar(c) ==
    IF \E i \in DOMAIN Lowers : Lowers[i] = c
    THEN Uppers[CHOOSE i \in DOMAIN Lowers : Lowers[i] = c]
    ELSE c

toLowerCaseChar(c) ==
    IF \E i \in DOMAIN Uppers : Uppers[i] = c
    THEN Lowers[CHOOSE i \in DOMAIN Uppers : Uppers[i] = c]
    ELSE c

toLowerCase(s) == [i \in DOMAIN s |-> toLowerCaseChar(s[i])]

slice(s, from) == IF from > Len(s) THEN Empty ELSE SubSeq(s, from, Len(s))

charAt0(s) == IF Len(s) = 0 THEN Empty ELSE <<s[1]>>

----------------------------------------------------------------------------
(* Increment kinds *)

MAJOR == <<"MAJOR">>
MINOR == <<"MINOR">>
PATCH == <<"PATCH">>
CALENDAR == <<"CALENDAR">>
MICRO == <<"MICRO">>
MODIFIER == <<"MODIFIER">>
PRERELEASE == <<"PRERELEASE">>
BUILD == <<"BUILD">>
RELEASE == <<"RELEASE">>

----------------------------------------------------------------------------
(* Conventional commits *)

feat == <<"f", "e", "a", "t">>
fix == <<"f", "i", "x">>

Commit(valid, brk, type, scope, description) ==
    [isValid |-> valid, breaking |-> brk, type |-> type, scope |-> scope,
     description |-> description]

CommitPool ==
    { Commit(TRUE, FALSE, feat, Undefined, <<"a", "d", "d">>),
      Commit(TRUE, FALSE, <<"F", "e", "a", "t">>, <<"a", "p", "i">>, <<"n", "e", "w">>),
      Commit(TRUE, FALSE, fix, Undefined, <<"f", "i", "x", "e", "d">>),
      Commit(TRUE, FALSE, fix, <<"c", "o", "r", "e">>, <<"H", "i", "d", "e">>),
      Commit(TRUE, TRUE, <<"c", "h", "o", "r", "e">>, Undefined, <<"d", "r", "o", "p">>),
      Commit(TRUE, FALSE, <<"d", "o", "c", "s">>, <<"a", "p", "i">>, <<"1", "s", "t">>),
      Commit(TRUE, FALSE, <<"d", "o", "c", "s">>, Undefined, Empty),
      Commit(FALSE, TRUE, feat, Undefined, <<"b", "a", "d">>),
      Commit(FALSE, FALSE, fix, Undefined, <<"w", "i", "p">>) }

----------------------------------------------------------------------------
(* SemVerScheme.determineIncrementType *)

RECURSIVE countTypes(_, _, _, _)
countTypes(list, i, br, typeCount) ==
    IF i > Len(list) THEN
        IF br = "release" /\ (typeCount.feat > 0 \/ typeCount.fix > 0) THEN PATCH
        ELSE IF typeCount.feat > 0 THEN MINOR
        ELSE IF typeCount.fix > 0 THEN PATCH
        ELSE Undefined
    ELSE
        LET commit == list[i]
            commitType == IF commit.type = Undefined THEN Empty
                          ELSE toLowerCase(commit.type)
        IN  IF ~commit.isValid THEN countTypes(list, i + 1, br, typeCount)
            ELSE IF commit.breaking THEN (IF br = "default" THEN MAJOR ELSE PATCH)
            ELSE IF commitType = feat
                 THEN countTypes(list, i + 1, br, [typeCount EXCEPT !.feat = @ + 1])
            ELSE IF commitType = fix
                 THEN countTypes(list, i + 1, br, [typeCount EXCEPT !.fix = @ + 1])
            ELSE countTypes(list, i + 1, br, typeCount)

(* Variant: the `if (!commit.isValid) continue` guard is missing. *)
SemVerDetermineIncrementType_countsInvalid(list, br) ==
    countTypes([i \in DOMAIN list |-> [list[i] EXCEPT !.isValid = TRUE]], 1, br,
               [feat |-> 0, fix |-> 0])

(* Variant: the branch kind is not consulted, every branch counts as default. *)
SemVerDetermineIncrementType_ignoresBranch(list, br) ==
    countTypes(list, 1, "default", [feat |-> 0, fix |-> 0])

SemVerDetermineIncrementType(list, br) ==
    countTypes(list, 1, br, [feat |-> 0, fix |-> 0])

(* Variant: the branch decides, a release branch increments the modifier. *)
CalVerDetermineIncrementType_byBranch(list, br) ==
    IF br = "default" THEN CALENDAR ELSE MODIFIER

(* CalVerScheme.determineIncrementType *)
CalVerDetermineIncrementType(list, br) == CALENDAR

determineIncrementType(sch, list, br) ==
    IF sch = "semver" THEN SemVerDetermineIncrementType(list, br)
    ELSE CalVerDetermineIncrementType(list, br)

----------------------------------------------------------------------------
(* Release configuration *)

UndefinedList == {Undefined}

Exclude(increment, types, scopes) ==
    [increment |-> increment, types |-> types, scopes |-> scopes]

NoExclude == Exclude(UndefinedList, UndefinedList, UndefinedList)

Category(title, increment, types, scopes, exclude) ==
    [title |-> title, increment |-> increment, types |-> types,
     scopes |-> scopes, exclude |-> exclude]

Configuration(exclude, categories) ==
    [exclude |-> exclude, categories |-> categories]

NoConfiguration == Configuration(NoExclude, <<Category(Undefined, {}, {}, {}, NoExclude)>>)

docs == <<"d", "o", "c", "s">>
api == <<"a", "p", "i">>
core == <<"c", "o", "r", "e">>

SemVerDefaultConfiguration ==
    Configuration(NoExclude,
        << Category(<<"Breaking Changes">>, {MAJOR}, UndefinedList, UndefinedList, NoExclude),
           Category(<<"New Features">>, {MINOR}, UndefinedList, UndefinedList, NoExclude),
           Category(<<"Bug Fixes">>, {PATCH}, UndefinedList, UndefinedList, NoExclude) >>)

CalVerDefaultConfiguration ==
    Configuration(NoExclude,
        << Category(<<"New Features">>, {Star}, UndefinedList, UndefinedList, NoExclude) >>)

defaultConfiguration(sch) ==
    IF sch = "semver" THEN SemVerDefaultConfiguration ELSE CalVerDefaultConfiguration

ExampleConfiguration ==
    Configuration(Exclude(UndefinedList, UndefinedList, {<<"d", "e", "p", "s">>}),
        << Category(<<"Breaking Changes">>, {MAJOR}, UndefinedList, UndefinedList, NoExclude),
           Category(<<"New Features">>, {MINOR}, UndefinedList, UndefinedList, NoExclude),
           Category(<<"Bug Fixes">>, {PATCH}, UndefinedList, UndefinedList,
                    Exclude(UndefinedList, UndefinedList, {core})),
           Category(<<"Documentation">>, UndefinedList, {docs}, {api}, NoExclude) >>)

ExcludingConfiguration ==
    Configuration(Exclude({MAJOR}, {docs}, {core}),
        << Category(<<"Everything">>, UndefinedList, UndefinedList, UndefinedList, NoExclude),
           Category(<<"Features">>, {MINOR, PATCH, CALENDAR}, {feat, fix}, {Star},
                    Exclude({PATCH}, UndefinedList, UndefinedList)),
           Category(<<"Nothing">>, {Star}, {}, UndefinedList, NoExclude),
           Category(<<"Fixes">>, {Star}, {Star, fix}, UndefinedList,
                    Exclude(UndefinedList, {feat}, {api})) >>)

ConfigurationPool == {NoConfiguration, ExampleConfiguration, ExcludingConfiguration}

(* Variant: unset category filters are left unset. *)
getConfiguration_keepsUnset(sch, fromAPI) ==
    IF fromAPI = NoConfiguration THEN defaultConfiguration(sch) ELSE fromAPI

(* getConfiguration *)
getConfiguration(sch, fromAPI) ==
    LET cfg == IF fromAPI = NoConfiguration THEN defaultConfiguration(sch) ELSE fromAPI
        wildcard(list) == IF list = UndefinedList THEN {Star} ELSE list
    IN  [cfg EXCEPT !.categories =
            [i \in DOMAIN cfg.categories |->
                [cfg.categories[i] EXCEPT !.increment = wildcard(@),
                                          !.scopes = wildcard(@),
                                          !.types = wildcard(@)]]]

----------------------------------------------------------------------------
(* generateChangelog *)

NL == <<"\n">>
Title == <<"## What's Changed">>

isMatch(value, item) == item # Undefined /\ value # UndefinedList /\ item \in value

isWildcard(value) == isMatch(value, Star)

firstCharToUpperCase(value) ==
    [i \in DOMAIN charAt0(value) |-> toUpperCaseChar(charAt0(value)[i])] \o slice(value, 2)

RECURSIVE join(_, _)
join(list, separator) ==
    IF Len(list) = 0 THEN Empty
    ELSE IF Len(list) = 1 THEN (IF list[1] = Undefined THEN Empty ELSE list[1])
    ELSE (IF list[1] = Undefined THEN Empty ELSE list[1]) \o separator \o join(Tail(list), separator)

isListed(sch, br, cfg, category, commit) ==
    IF ~commit.isValid THEN FALSE
    ELSE
        LET incrementType == determineIncrementType(sch, <<commit>>, br)
            hasValidIncrement ==
                /\ (isWildcard(category.increment) \/ isMatch(category.increment, incrementType))
                /\ ~isMatch(category.exclude.increment, incrementType)
                /\ ~isMatch(cfg.exclude.increment, incrementType)
            hasValidType ==
                /\ (isWildcard(category.types) \/ isMatch(category.types, commit.type))
                /\ ~isMatch(category.exclude.types, commit.type)
                /\ ~isMatch(cfg.exclude.types, commit.type)
            hasValidScope ==
                /\ (isWildcard(category.scopes) \/ isMatch(category.scopes, commit.scope))
                /\ ~isMatch(category.exclude.scopes, commit.scope)
                /\ ~isMatch(cfg.exclude.scopes, commit.scope)
        IN  hasValidIncrement /\ hasValidType /\ hasValidScope

RECURSIVE filterIndices(_, _, _, _, _, _)
filterIndices(sch, br, cfg, category, list, i) ==
    IF i > Len(list) THEN <<>>
    ELSE (IF isListed(sch, br, cfg, category, list[i]) THEN <<i>> ELSE <<>>)
         \o filterIndices(sch, br, cfg, category, list, i + 1)

categoryCommits(sch, br, cfg, category, list) ==
    filterIndices(sch, br, cfg, category, list, 1)

categoryBlock(category, list, listed) ==
    IF Len(listed) > 0
    THEN <<"### ">> \o category.title \o NL \o NL
         \o join([k \in DOMAIN listed |->
                    <<"- ">> \o firstCharToUpperCase(
                        IF list[listed[k]].description = Undefined THEN Empty
                        ELSE list[listed[k]].description)], NL)
         \o NL \o NL
    ELSE Undefined

generateChangelog(sch, br, fromAPI, list) ==
    LET cfg == getConfiguration(sch, fromAPI)
        listed == [c \in DOMAIN cfg.categories |->
                     categoryCommits(sch, br, cfg, cfg.categories[c], list)]
    IN  [text |-> Title \o NL \o NL
                  \o join([c \in DOMAIN cfg.categories |->
                             categoryBlock(cfg.categories[c], list, listed[c])], NL),
         listed |-> listed]

----------------------------------------------------------------------------
(* Numbers in texts *)

Digits == <<"0", "1", "2", "3", "4", "5", "6", "7", "8", "9">>

DigitSet == {Digits[i] : i \in DOMAIN Digits}
LetterSet == {Lowers[i] : i \in DOMAIN Lowers} \cup {Uppers[i] : i \in DOMAIN Uppers}
IdentifierSet == LetterSet \cup DigitSet \cup {".", "-"}

RECURSIVE NatToStr(_)
NatToStr(n) ==
    IF n < 10 THEN <<Digits[n + 1]>>
    ELSE NatToStr(n \div 10) \o <<Digits[(n % 10) + 1]>>

DigitValue(c) == (CHOOSE i \in DOMAIN Digits : Digits[i] = c) - 1

RECURSIVE parseInt(_)
parseInt(s) ==
    IF Len(s) = 0 THEN 0
    ELSE parseInt(SubSeq(s, 1, Len(s) - 1)) * 10 + DigitValue(s[Len(s)])

(* Length of the longest run of characters of `set` in s starting at `from`. *)
RECURSIVE run(_, _, _)
run(s, from, set) ==
    IF from > Len(s) THEN 0
    ELSE IF s[from] \notin set THEN 0
    ELSE 1 + run(s, from + 1, set)

(* `s ?? ""` *)
orEmpty(s) == IF s = Undefined THEN Empty ELSE s

startsWith(s, p) == Len(p) <= Len(s) /\ SubSeq(s, 1, Len(p)) = p

padStart2(s) == IF Len(s) < 2 THEN <<"0">> \o s ELSE s

----------------------------------------------------------------------------
(* SemVer value type *)

Thrown == [scheme |-> "error"]

SemVer(pfx, major, minor, patch, preRelease, build) ==
    [scheme |-> "semver", prefix |-> pfx, major |-> major, minor |-> minor,
     patch |-> patch, preRelease |-> preRelease, build |-> build]

(* SEMVER_REGEX: an optional group, `sign` followed by one or more        *)
(* identifier characters; the length it takes at `at`, 0 when it is not    *)
(* there.                                                                  *)
optionalGroup(text, at, sign) ==
    IF at <= Len(text) /\ text[at] = sign /\ run(text, at + 1, IdentifierSet) > 0
    THEN 1 + run(text, at + 1, IdentifierSet)
    ELSE 0

(* SEMVER_REGEX: the groups, given where the two dots are (p1, p2) and     *)
(* where patch, pre-release and build end (p3, p4, p5: one past the end).  *)
semverMatch(text, p1, p2, p3, p4, p5) ==
    IF /\ p1 > 1 /\ p1 <= Len(text) /\ text[p1] = "."
       /\ p2 > p1 + 1 /\ p2 <= Len(text) /\ text[p2] = "."
       /\ p3 > p2 + 1
       /\ p5 = Len(text) + 1
    THEN [matched |-> TRUE,
          major |-> SubSeq(text, 1, p1 - 1),
          minor |-> SubSeq(text, p1 + 1, p2 - 1),
          patch |-> SubSeq(text, p2 + 1, p3 - 1),
          preRelease |-> IF p4 > p3 THEN SubSeq(text, p3 + 1, p4 - 1) ELSE Undefined,
          build |-> IF p5 > p4 THEN SubSeq(text, p4 + 1, p5 - 1) ELSE Undefined]
    ELSE [matched |-> FALSE]

semverBuild(text, p1, p2, p3, p4) ==
    semverMatch(text, p1, p2, p3, p4, p4 + optionalGroup(text, p4, "+"))

semverPreRelease(text, p1, p2, p3) ==
    semverBuild(text, p1, p2, p3, p3 + optionalGroup(text, p3, "-"))

semverPatch(text, p1, p2) ==
    semverPreRelease(text, p1, p2, p2 + 1 + run(text, p2 + 1, DigitSet))

semverMinor(text, p1) ==
    semverPatch(text, p1, p1 + 1 + run(text, p1 + 1, DigitSet))

(* SEMVER_REGEX.exec(version)?.groups *)
semverGroups(text) == semverMinor(text, 1 + run(text, 1, DigitSet))

SemVerFromGroups(pfx, groups) ==
    IF ~groups.matched THEN Thrown
    ELSE SemVer(pfx, parseInt(groups.major), parseInt(groups.minor),
                parseInt(groups.patch), groups.preRelease, groups.build)

(* SemVer.fromString *)
SemVerFromString(text, pfx) ==
    IF pfx # Undefined /\ ~startsWith(text, pfx) THEN Thrown
    ELSE SemVerFromGroups(pfx, semverGroups(IF pfx # Undefined
                                            THEN slice(text, Len(pfx) + 1) ELSE text))

truthy(s) == s # Undefined /\ s # Empty

(* SemVer.toString *)
SemVerToString(v) ==
    (IF v.prefix # Undefined THEN v.prefix ELSE Empty)
    \o NatToStr(v.major) \o <<".">> \o NatToStr(v.minor) \o <<".">> \o NatToStr(v.patch)
    \o (IF truthy(v.preRelease) THEN <<"-">> \o v.preRelease ELSE Empty)
    \o (IF truthy(v.build) THEN <<"+">> \o v.build ELSE Empty)

NoKeyValue == [key |-> Undefined, value |-> -1]

identifierMatch(id, nKey) ==
    IF /\ nKey > 0 /\ nKey + 1 <= Len(id) /\ id[nKey + 1] = "."
       /\ run(id, nKey + 2, DigitSet) > 0
       /\ nKey + 1 + run(id, nKey + 2, DigitSet) = Len(id)
    THEN [key |-> SubSeq(id, 1, nKey + 1),
          value |-> parseInt(SubSeq(id, nKey + 2, Len(id)))]
    ELSE NoKeyValue

(* identifierKeyValue *)
identifierKeyValue(identifier) ==
    identifierMatch(orEmpty(identifier), run(orEmpty(identifier), 1, LetterSet \cup {"-"}))

NoOrder == 2

(* Variant: a side without number ranks above the other, whichever it is. *)
sortValues_oneSided(aValue, bValue) ==
    IF aValue = -1 /\ bValue # -1 THEN 1
    ELSE IF aValue # -1 /\ bValue = -1 THEN 1
    ELSE IF aValue # -1 /\ bValue # -1 /\ aValue # bValue
         THEN (IF aValue > bValue THEN 1 ELSE -1)
    ELSE NoOrder

sortValues(aValue, bValue) ==
    IF aValue = -1 /\ bValue # -1 THEN 1
    ELSE IF aValue # -1 /\ bValue = -1 THEN -1
    ELSE IF aValue # -1 /\ bValue # -1 /\ aValue # bValue
         THEN (IF aValue > bValue THEN 1 ELSE -1)
    ELSE NoOrder

(* sortIdentifier *)
sortIdentifier(a, b) ==
    sortValues(identifierKeyValue(a).value, identifierKeyValue(b).value)

(* `if (sort !== undefined) return sort;` *)
firstDefined(sort, otherwise) == IF sort # NoOrder THEN sort ELSE otherwise

(* sortSemVer *)
sortSemVer(a, b) ==
    IF a.major # b.major THEN (IF a.major > b.major THEN 1 ELSE -1)
    ELSE IF a.minor # b.minor THEN (IF a.minor > b.minor THEN 1 ELSE -1)
    ELSE IF a.patch # b.patch THEN (IF a.patch > b.patch THEN 1 ELSE -1)
    ELSE firstDefined(sortIdentifier(a.preRelease, b.preRelease),
                      firstDefined(sortIdentifier(a.build, b.build), 0))

Throws == <<"throws">>

bumpKeyValue(keyValuePair) ==
    IF keyValuePair.key = Undefined \/ keyValuePair.value = -1 THEN Throws
    ELSE keyValuePair.key \o NatToStr(keyValuePair.value + 1)

(* SemVer.bumpIdentifier *)
bumpIdentifier(identifier) ==
    IF identifier = Undefined THEN Undefined
    ELSE bumpKeyValue(identifierKeyValue(identifier))

(* `bumped ?? first` *)
orFirst(bumped, first) == IF bumped = Undefined THEN first ELSE bumped

(* Variant: the build identifier is not cleared. *)
bumpPreRelease_keepsBuild(v, bumped) ==
    IF bumped = Throws THEN Thrown
    ELSE [v EXCEPT !.preRelease = orFirst(bumped, <<"r", "c", ".", "1">>)]

bumpPreRelease(v, bumped) ==
    IF bumped = Throws THEN Thrown
    ELSE [v EXCEPT !.preRelease = orFirst(bumped, <<"r", "c", ".", "1">>),
                   !.build = Undefined]

bumpBuild(v, bumped) ==
    IF bumped = Throws THEN Thrown
    ELSE [v EXCEPT !.build = orFirst(bumped, <<"b", "u", "i", "l", "d", ".", "1">>)]

(* Variant: the core fields are counted in place, the identifiers stay. *)
bump_keepsIdentifiers(v, type) ==
    CASE type = "preRelease" -> bumpPreRelease(v, bumpIdentifier(v.preRelease))
      [] type = "build" -> bumpBuild(v, bumpIdentifier(v.build))
      [] type = "major" -> [v EXCEPT !.major = @ + 1, !.minor = 0, !.patch = 0]
      [] type = "minor" -> [v EXCEPT !.minor = @ + 1, !.patch = 0]
      [] type = "patch" -> [v EXCEPT !.patch = @ + 1]

(* SemVer.bump *)
bump(v, type) ==
    CASE type = "preRelease" -> bumpPreRelease(v, bumpIdentifier(v.preRelease))
      [] type = "build" -> bumpBuild(v, bumpIdentifier(v.build))
      [] type = "major" -> SemVer(v.prefix, v.major + 1, 0, 0, Undefined, Undefined)
      [] type = "minor" -> SemVer(v.prefix, v.major, v.minor + 1, 0, Undefined, Undefined)
      [] type = "patch" -> SemVer(v.prefix, v.major, v.minor, v.patch + 1, Undefined, Undefined)

----------------------------------------------------------------------------
(* Version value types of @dev-build-deploy/version-it, as the callers and *)
(* the tests of this repository use them.                                   *)

Identifier(identifier, value) == [identifier |-> identifier, value |-> value]

rc == <<"r", "c">>
dev == <<"d", "e", "v">>
hotfix == <<"h", "o", "t", "f", "i", "x">>

identifierOf(text, keyValuePair) ==
    IF keyValuePair = NoKeyValue THEN <<Identifier(text, -1)>>
    ELSE <<Identifier(SubSeq(keyValuePair.key, 1, Len(keyValuePair.key) - 1),
                      keyValuePair.value)>>

(* SemVer.preReleases (getter): the pre-release as a list of identifiers. *)
preReleases(v) ==
    IF ~truthy(v.preRelease) THEN <<>>
    ELSE identifierOf(v.preRelease, identifierKeyValue(v.preRelease))

identifierToString(element) ==
    IF element.value = -1 THEN element.identifier
    ELSE element.identifier \o <<".">> \o NatToStr(element.value)

(* SemVer.preReleases (setter) *)
withPreReleases(v, list) ==
    [v EXCEPT !.preRelease = IF Len(list) = 0 THEN Undefined
                             ELSE identifierToString(list[1])]

(* increment("PRERELEASE", modifier) / increment("MODIFIER", modifier) on   *)
(* the list: the identifier named `modifier` is incremented, or appended   *)
(* with value 1 when the list has none.                                     *)
incrementIdentifier(list, modifier) ==
    IF \E i \in DOMAIN list : list[i].identifier = modifier
    THEN [i \in DOMAIN list |->
            IF list[i].identifier = modifier
            THEN Identifier(modifier, list[i].value + 1) ELSE list[i]]
    ELSE Append(list, Identifier(modifier, 1))

CalVer(pfx, year, month, micro, modifiers) ==
    [scheme |-> "calver", prefix |-> pfx, major |-> year, minor |-> month,
     micro |-> micro, modifiers |-> modifiers]

RECURSIVE modifiersToString(_)
modifiersToString(list) ==
    IF Len(list) = 0 THEN Empty
    ELSE <<"-">> \o identifierToString(list[1]) \o modifiersToString(Tail(list))

(* CalVer.toString, format YYYY.0M.MICRO *)
CalVerToString(v) ==
    (IF v.prefix # Undefined THEN v.prefix ELSE Empty)
    \o NatToStr(v.major) \o <<".">> \o padStart2(NatToStr(v.minor)) \o <<".">>
    \o NatToStr(v.micro) \o modifiersToString(v.modifiers)

NoModifiers == <<Identifier(Undefined, -1)>>

prepend(element, rest) ==
    IF rest = NoModifiers THEN NoModifiers ELSE <<element>> \o rest

RECURSIVE parseModifiers(_, _)
(* One modifier at `from`: "-", letters up to the dot at `dot`, digits up  *)
(* to `end` (one past the last digit); then the rest of the text.          *)
parseModifier(text, from, dot, end) ==
    IF /\ text[from] = "-" /\ dot > from + 1
       /\ dot <= Len(text) /\ text[dot] = "." /\ end > dot + 1
    THEN prepend(Identifier(SubSeq(text, from + 1, dot - 1),
                            parseInt(SubSeq(text, dot + 1, end - 1))),
                 parseModifiers(text, end))
    ELSE NoModifiers

parseModifierValue(text, from, dot) ==
    parseModifier(text, from, dot, dot + 1 + run(text, dot + 1, DigitSet))

parseModifiers(text, from) ==
    IF from > Len(text) THEN <<>>
    ELSE parseModifierValue(text, from, from + 1 + run(text, from + 1, LetterSet))

calVerParsed(pfx, rest, nMicro, modifiers) ==
    IF modifiers = NoModifiers THEN Thrown
    ELSE CalVer(pfx, parseInt(SubSeq(rest, 1, 4)), parseInt(SubSeq(rest, 6, 7)),
                parseInt(SubSeq(rest, 9, 8 + nMicro)), modifiers)

calVerMicro(pfx, rest, nMicro) ==
    IF nMicro > 0 THEN calVerParsed(pfx, rest, nMicro, parseModifiers(rest, 9 + nMicro))
    ELSE Thrown

calVerDate(pfx, rest) ==
    IF /\ run(rest, 1, DigitSet) = 4 /\ Len(rest) >= 9 /\ rest[5] = "."
       /\ run(rest, 6, DigitSet) = 2 /\ rest[8] = "."
    THEN calVerMicro(pfx, rest, run(rest, 9, DigitSet))
    ELSE Thrown

(* CalVer.fromString, format YYYY.0M.MICRO *)
CalVerFromString(text, pfx) ==
    IF pfx # Undefined /\ ~startsWith(text, pfx) THEN Thrown
    ELSE calVerDate(pfx, IF pfx # Undefined THEN slice(text, Len(pfx) + 1) ELSE text)

(* CalVer.increment: CALENDAR takes year and month from the clock and      *)
(* starts a new micro count; within the same month it leaves the version   *)
(* as it is.  MICRO counts up and drops the modifiers.  MODIFIER counts    *)
(* the named modifier up (the last one when none is named).                *)
CalVerIncrement(v, type, modifier, clock) ==
    CASE type = CALENDAR ->
            IF clock.year = v.major /\ clock.month = v.minor THEN v
            ELSE CalVer(v.prefix, clock.year, clock.month, 0, <<>>)
      [] type = MICRO -> CalVer(v.prefix, v.major, v.minor, v.micro + 1, <<>>)
      [] type = MODIFIER ->
            IF modifier # Undefined
            THEN [v EXCEPT !.modifiers = incrementIdentifier(@, modifier)]
            ELSE IF Len(v.modifiers) = 0 THEN v
            ELSE [v EXCEPT !.modifiers[Len(v.modifiers)].value = @ + 1]
      [] OTHER -> Thrown

RECURSIVE compareModifiers(_, _)
compareModifiers(a, b) ==
    IF Len(a) = 0 /\ Len(b) = 0 THEN 0
    ELSE IF Len(a) = 0 THEN -1
    ELSE IF Len(b) = 0 THEN 1
    ELSE IF a[1].identifier = b[1].identifier /\ a[1].value # b[1].value
         THEN (IF a[1].value > b[1].value THEN 1 ELSE -1)
    ELSE compareModifiers(Tail(a), Tail(b))

(* CalVer.compareTo *)
CalVerCompareTo(a, b) ==
    IF a.major # b.major THEN (IF a.major > b.major THEN 1 ELSE -1)
    ELSE IF a.minor # b.minor THEN (IF a.minor > b.minor THEN 1 ELSE -1)
    ELSE IF a.micro # b.micro THEN (IF a.micro > b.micro THEN 1 ELSE -1)
    ELSE compareModifiers(a.modifiers, b.modifiers)

(* SemVer.increment for the core kinds *)
SemVerIncrement(v, type) ==
    CASE type = MAJOR -> bump(v, "major")
      [] type = MINOR -> bump(v, "minor")
      [] type = PATCH -> bump(v, "patch")
      [] type = PRERELEASE -> bump(v, "preRelease")
      [] type = BUILD -> bump(v, "build")
      [] OTHER -> Thrown

----------------------------------------------------------------------------
(* compareVersions *)

compareVersions(a, b) ==
    IF a.scheme = "calver" /\ b.scheme = "calver" THEN CalVerCompareTo(a, b)
    ELSE IF a.scheme = "semver" /\ b.scheme = "semver" THEN sortSemVer(a, b)
    ELSE NoOrder

----------------------------------------------------------------------------
(* incrementVersion (single increment, prerelease input) *)

(* SemVerScheme.createVersion / CalVerScheme.createVersion *)
createVersion(sch, text, pfx) ==
    IF sch = "semver" THEN SemVerFromString(text, pfx)
    ELSE CalVerFromString(text, pfx)

(* `newVersion.modifiers = []` *)
withoutModifiers(newVersion) ==
    IF newVersion = Thrown THEN Thrown ELSE [newVersion EXCEPT !.modifiers = <<>>]

(* Variant: RELEASE strips the modifiers whatever the prerelease input. *)
calVerRelease_alwaysStrips(v, isPre, pfx) ==
    withoutModifiers(createVersion("calver", CalVerToString(v), pfx))

(* case "RELEASE" of a CalVer *)
calVerRelease(v, isPre, pfx) ==
    IF ~isPre THEN withoutModifiers(createVersion("calver", CalVerToString(v), pfx))
    ELSE v

(* `.filter(element => element.identifier === modifier)` *)
onlyLabelled(list, modifier) ==
    SelectSeq(list, LAMBDA element : element.identifier = modifier)

(* `newVersion.modifiers = newVersion.modifiers.filter(...)` *)
calVerLabelled(newVersion, modifier) ==
    [newVersion EXCEPT !.modifiers = onlyLabelled(@, modifier)]

(* Variant: the modifiers of other labels are not filtered out. *)
calVerCalendarMicro_keepsOtherLabels(v, incrementType, isPre, br, clock) ==
    LET modifier == IF br = "release" THEN rc ELSE dev
    IN  IF isPre
        THEN CalVerIncrement(CalVerIncrement(v, incrementType, Undefined, clock),
                             MODIFIER, modifier, clock)
        ELSE CalVerIncrement(v, incrementType, Undefined, clock)

(* case "CALENDAR", "MICRO" of a CalVer *)
calVerCalendarMicro(v, incrementType, isPre, br, clock) ==
    LET modifier == IF br = "release" THEN rc ELSE dev
    IN  IF isPre
        THEN calVerLabelled(
                 CalVerIncrement(CalVerIncrement(v, incrementType, Undefined, clock),
                                 MODIFIER, modifier, clock),
                 modifier)
        ELSE CalVerIncrement(v, incrementType, Undefined, clock)

(* `newVersion.preReleases = []` *)
withoutPreReleases(newVersion) ==
    IF newVersion = Thrown THEN Thrown ELSE withPreReleases(newVersion, <<>>)

(* Variant: RELEASE returns the version as it is whatever the prerelease input. *)
semVerRelease_neverStrips(v, isPre, pfx) == v

(* case "RELEASE" of a SemVer *)
semVerRelease(v, isPre, pfx) ==
    IF ~isPre THEN withoutPreReleases(createVersion("semver", SemVerToString(v), pfx))
    ELSE v

(* `.increment("PRERELEASE", modifier)` and                                *)
(* `newVersion.preReleases = newVersion.preReleases.filter(...)`           *)
semVerLabelled(bumped, modifier) ==
    withPreReleases(bumped,
        onlyLabelled(incrementIdentifier(preReleases(bumped), modifier), modifier))

(* case "MAJOR", "MINOR", "PATCH" of a SemVer *)
semVerCore(v, incrementType, isPre, br) ==
    LET modifier == IF br = "release" THEN rc ELSE dev
    IN  IF isPre THEN semVerLabelled(SemVerIncrement(v, incrementType), modifier)
        ELSE SemVerIncrement(v, incrementType)

incrementVersion(v, incrementType, isPre, br, pfx, clock) ==
    IF v.scheme = "calver" THEN
        CASE incrementType = RELEASE -> calVerRelease(v, isPre, pfx)
          [] incrementType \in {CALENDAR, MICRO} ->
                calVerCalendarMicro(v, incrementType, isPre, br, clock)
          [] OTHER -> Thrown
    ELSE IF v.scheme = "semver" THEN
        CASE incrementType = RELEASE -> semVerRelease(v, isPre, pfx)
          [] incrementType \in {MAJOR, MINOR, PATCH} ->
                semVerCore(v, incrementType, isPre, br)
          [] OTHER -> Thrown
    ELSE Thrown

----------------------------------------------------------------------------
(* incrementVersion (sequence of increments) *)

(* Variant: a version without modifier is not given the hotfix modifier. *)
incrementCalVer_withoutHotfix(v, incrementType, keepModifier, clock) ==
    LET newVersion == CalVerIncrement(v, incrementType, Undefined, clock)
    IN  IF newVersion = Thrown THEN Thrown
        ELSE IF incrementType = CALENDAR
                /\ newVersion.major = v.major /\ newVersion.minor = v.minor
        THEN CalVerIncrement(v, MICRO, Undefined, clock)
        ELSE newVersion

(* Variant: a CALENDAR increment within the same month is not turned into MICRO. *)
incrementCalVer_withoutMicroFallback(v, incrementType, keepModifier, clock) ==
    LET newVersion == CalVerIncrement(v, incrementType, Undefined, clock)
    IN  IF newVersion = Thrown THEN Thrown
        ELSE IF incrementType = MODIFIER /\ Len(v.modifiers) = 0
        THEN [newVersion EXCEPT !.modifiers = <<Identifier(hotfix, 1)>>]
        ELSE newVersion

(* incrementCalVer *)
incrementCalVer(v, incrementType, keepModifier, clock) ==
    LET newVersion == CalVerIncrement(v, incrementType, Undefined, clock)
    IN  IF newVersion = Thrown THEN Thrown
        ELSE IF incrementType = CALENDAR
                /\ newVersion.major = v.major /\ newVersion.minor = v.minor
        THEN LET micro == CalVerIncrement(v, MICRO, Undefined, clock)
             IN  IF keepModifier THEN [micro EXCEPT !.modifiers = v.modifiers] ELSE micro
        ELSE IF incrementType = MODIFIER /\ Len(v.modifiers) = 0
        THEN [newVersion EXCEPT !.modifiers = <<Identifier(hotfix, 1)>>]
        ELSE newVersion

(* `if (incrementType === "PRERELEASE") { ... }` *)
prereleaseLabelled(v, incrementType, prereleaseModifier) ==
    IF incrementType = PRERELEASE
       /\ (~truthy(v.preRelease)
           \/ ~startsWith(orEmpty(identifierKeyValue(v.preRelease).key), prereleaseModifier))
    THEN [v EXCEPT !.preRelease = prereleaseModifier \o <<"0">>]
    ELSE v

(* `if (keepMetadata) newVersion.preReleases = version.preReleases` *)
keepPreReleases(newVersion, labelled, keepMetadata) ==
    IF newVersion = Thrown THEN Thrown
    ELSE IF keepMetadata THEN [newVersion EXCEPT !.preRelease = labelled.preRelease]
    ELSE newVersion

incrementLabelled(labelled, incrementType, keepMetadata) ==
    keepPreReleases(SemVerIncrement(labelled, incrementType), labelled, keepMetadata)

(* incrementSemVer *)
incrementSemVer(v, incrementType, keepMetadata, br) ==
    incrementLabelled(
        prereleaseLabelled(v, incrementType,
                           IF br = "release" THEN rc \o <<".">> ELSE dev \o <<".">>),
        incrementType, keepMetadata)

RECURSIVE incrementLoop(_, _, _, _, _, _, _)
(* Variant: the loop has no `break`, every kind of the list is applied. *)
incrementStep_neverBreaks(original, next, incrementTypes, i, br, clock) ==
    IF next = Thrown THEN Thrown
    ELSE incrementLoop(original, next, incrementTypes, i + 1, incrementTypes[i], br, clock)

(* The rest of one round of the loop: `if (newVersion.isGreaterThan(version)) break` *)
incrementStep(original, next, incrementTypes, i, br, clock) ==
    IF next = Thrown THEN Thrown
    ELSE IF compareVersions(next, original) = 1 THEN next
    ELSE incrementLoop(original, next, incrementTypes, i + 1, incrementTypes[i], br, clock)

incrementLoop(original, newVersion, incrementTypes, i, previousIncrement, br, clock) ==
    IF i > Len(incrementTypes) THEN newVersion
    ELSE incrementStep(original,
                       IF original.scheme = "calver"
                       THEN incrementCalVer(newVersion, incrementTypes[i],
                                            previousIncrement = MODIFIER, clock)
                       ELSE incrementSemVer(newVersion, incrementTypes[i],
                                            previousIncrement \in {PRERELEASE, BUILD}, br),
                       incrementTypes, i, br, clock)

incrementVersionSequence(v, incrementTypes, br, clock) ==
    IF v.scheme \in {"calver", "semver"}
    THEN incrementLoop(v, v, incrementTypes, 1, Empty, br, clock)
    ELSE Thrown

----------------------------------------------------------------------------
(* Scheme and renderer applied to a commit history *)

NoVersion == [scheme |-> "none"]
NoOut == [op |-> "none"]
NoInput == [given |-> FALSE]
NoLocal == [set |-> FALSE]
NoRequest == [name |-> Undefined]
NoRemote == [releases |-> 0, assets |-> 0, request |-> NoRequest]
NoOutputs == {}

(* No run of the action is under way. *)
NoRun ==
    /\ input = NoInput /\ pc = "idle" /\ local = NoLocal
    /\ remote = NoRemote /\ outputs = NoOutputs /\ failed = <<>>
FixedNow == [year |-> 2023, month |-> 6]

Init ==
    /\ branch \in {"default", "release"}
    /\ scheme \in {"semver", "calver"}
    /\ config \in ConfigurationPool
    /\ commits = <<>>
    /\ prefix = Empty
    /\ isPrerelease = FALSE
    /\ now = FixedNow
    /\ version = NoVersion
    /\ out = NoOut
    /\ argument = Empty
    /\ NoRun

Push(c) ==
    /\ Len(commits) < MaxCommits
    /\ commits' = Append(commits, c)
    /\ out' = NoOut
    /\ UNCHANGED <<branch, scheme, prefix, isPrerelease, now, version, config, argument, runVars>>

DetermineIncrementType ==
    /\ out' = [op |-> "determineIncrementType",
               result |-> determineIncrementType(scheme, commits, branch)]
    /\ UNCHANGED <<branch, scheme, prefix, isPrerelease, now, version, config, commits, argument,
                 runVars>>

GenerateChangelog ==
    /\ LET r == generateChangelog(scheme, branch, config, commits)
       IN  out' = [op |-> "generateChangelog", result |-> r.text, listed |-> r.listed]
    /\ UNCHANGED <<branch, scheme, prefix, isPrerelease, now, version, config, commits, argument,
                 runVars>>

Next ==
    \/ \E c \in CommitPool : Push(c)
    \/ DetermineIncrementType
    \/ GenerateChangelog

Spec == Init /\ [][Next]_vars

----------------------------------------------------------------------------
(* The increment engine applied to a version *)

MaxIncrements == 2

PreReleasePool ==
    {Undefined, <<"r", "c", ".", "1">>, <<"d", "e", "v", ".", "2">>, <<"a", "l", "p", "h", "a">>}

BuildPool == {Undefined, <<"b", "u", "i", "l", "d", ".", "1">>, <<"e", "x", "p">>}

ModifiersPool ==
    {<<>>, <<Identifier(dev, 1)>>, <<Identifier(rc, 2)>>, <<Identifier(hotfix, 1)>>}

ClockPool == {[year |-> 2023, month |-> 6], [year |-> 2023, month |-> 12]}

SemVerPool(pfx) ==
    {SemVer(pfx, major, minor, patch, preRelease, build) :
        major \in 0..MaxCore, minor \in 0..MaxCore, patch \in 0..MaxCore,
        preRelease \in PreReleasePool, build \in BuildPool}

(* Released versions are not dated after the clock. *)
CalVerPool(pfx, clock) ==
    {CalVer(pfx, date.year, date.month, micro, modifiers) :
        date \in {d \in {[year |-> 2023, month |-> 5]} \cup ClockPool :
                    d.year < clock.year \/ (d.year = clock.year /\ d.month <= clock.month)},
        micro \in 0..MaxMicro, modifiers \in ModifiersPool}

SemVerKinds == {MAJOR, MINOR, PATCH, PRERELEASE, BUILD}
CalVerKinds == {CALENDAR, MICRO, MODIFIER}

KindsOf(v) == IF v.scheme = "semver" THEN SemVerKinds ELSE CalVerKinds

Sequences(set) == UNION {[1..n -> set] : n \in 1..MaxIncrements}

InitVersion ==
    /\ branch \in {"default", "release"}
    /\ prefix \in {Empty, <<"v">>}
    /\ isPrerelease \in BOOLEAN
    /\ now \in ClockPool
    /\ version \in SemVerPool(prefix) \cup CalVerPool(prefix, now)
    /\ scheme = version.scheme
    /\ config = NoConfiguration
    /\ commits = <<>>
    /\ out = NoOut
    /\ argument = Empty
    /\ NoRun

(* Which object incrementVersion returns: the one it was handed          *)
(* (`return version`) or one made during the call (`return newVersion`,    *)
(* `return version.increment(...)`).                                       *)
returnedObject(incrementType, isPre) ==
    IF incrementType = RELEASE /\ isPre THEN "version" ELSE "newVersion"

(* The sequence form works on `new CalVer(version.format, version)` or     *)
(* `new SemVer(version)` and returns that object or a later one.           *)
returnedObjectSequence(incrementTypes) == "newVersion"

IncrementVersion(incrementType) ==
    /\ out = NoOut
    /\ out' = [op |-> "incrementVersion", type |-> incrementType,
               result |-> incrementVersion(version, incrementType, isPrerelease,
                                           branch, prefix, now),
               object |-> returnedObject(incrementType, isPrerelease),
               before |-> version]
    /\ UNCHANGED <<branch, scheme, prefix, isPrerelease, now, version, config, commits, argument,
                 runVars>>

IncrementVersionSequence(incrementTypes) ==
    /\ out = NoOut
    /\ out' = [op |-> "incrementVersionSequence", type |-> incrementTypes,
               result |-> incrementVersionSequence(version, incrementTypes, branch, now),
               object |-> returnedObjectSequence(incrementTypes),
               before |-> version]
    /\ UNCHANGED <<branch, scheme, prefix, isPrerelease, now, version, config, commits, argument,
                 runVars>>

NextVersion ==
    \/ \E incrementType \in KindsOf(version) \cup {RELEASE} : IncrementVersion(incrementType)
    \/ \E incrementTypes \in Sequences(KindsOf(version)) : IncrementVersionSequence(incrementTypes)

SpecVersion == InitVersion /\ [][NextVersion]_vars

----------------------------------------------------------------------------
(* SemVer texts and values: fromString, toString, sortSemVer, bump *)

NumberTexts == {<<"0">>, <<"1">>, <<"0", "1">>, <<"1", "0">>}

PreReleaseTexts ==
    {Empty, <<"-", "r", "c", ".", "1">>, <<"-", "a", "l", "p", "h", "a">>, <<"-">>}

BuildTexts == {Empty, <<"+", "b", "u", "i", "l", "d", ".", "1">>, <<"+">>}

(* The texts the tests call bad versions. *)
BadTexts ==
    {<<"0", ".", "0", ".", "1", ".", "1">>, <<"0", ".", "1", ".", "x">>,
     <<"0", ".", "1", ".", "1", "?", "r", "c", ".", "1">>, <<"v", "8", "7">>, Empty}

SemVerTextPool ==
    {pfx \o major \o <<".">> \o minor \o <<".">> \o patch \o preRelease \o build :
        pfx \in {Empty, <<"v">>}, major \in NumberTexts, minor \in {<<"0">>, <<"2">>},
        patch \in {<<"0">>, <<"1">>}, preRelease \in PreReleaseTexts,
        build \in BuildTexts}
    \cup BadTexts

InitSemVer ==
    /\ branch = "default"
    /\ scheme = "semver"
    /\ prefix \in {Undefined, <<"v">>}
    /\ isPrerelease = FALSE
    /\ now = FixedNow
    /\ \/ argument \in SemVerTextPool /\ version = NoVersion
       \/ argument = Empty /\ version \in SemVerPool(prefix)
    /\ config = NoConfiguration
    /\ commits = <<>>
    /\ out = NoOut
    /\ NoRun

(* `SemVer.fromString(version, prefix).toString()` *)
rendered(v) == IF v = Thrown THEN Undefined ELSE SemVerToString(v)

FromString ==
    /\ out = NoOut /\ version = NoVersion
    /\ out' = [op |-> "fromString", result |-> SemVerFromString(argument, prefix),
               text |-> rendered(SemVerFromString(argument, prefix))]
    /\ UNCHANGED <<branch, scheme, prefix, isPrerelease, now, version, config, commits, argument,
                 runVars>>

SortSemVer(b) ==
    /\ out = NoOut /\ version # NoVersion
    /\ out' = [op |-> "sortSemVer", b |-> b, result |-> sortSemVer(version, b)]
    /\ UNCHANGED <<branch, scheme, prefix, isPrerelease, now, version, config, commits, argument,
                 runVars>>

Bump(type) ==
    /\ out = NoOut /\ version # NoVersion
    /\ out' = [op |-> "bump", type |-> type, result |-> bump(version, type)]
    /\ UNCHANGED <<branch, scheme, prefix, isPrerelease, now, version, config, commits, argument,
                 runVars>>

NextSemVer ==
    \/ FromString
    \/ \E b \in SemVerPool(prefix) : SortSemVer(b)
    \/ \E type \in {"major", "minor", "patch", "preRelease", "build"} : Bump(type)

SpecSemVer == InitSemVer /\ [][NextSemVer]_vars

----------------------------------------------------------------------------
(* Inputs of the action: the increment type and the ref *)

toUpperCase(s) == [i \in DOMAIN s |-> toUpperCaseChar(s[i])]

(* `new Error(message)` *)
Error(message) == [scheme |-> "error", message |-> message]

(* How each kind is spelled. *)
KindText ==
    (MAJOR :> <<"M", "A", "J", "O", "R">>) @@
    (MINOR :> <<"M", "I", "N", "O", "R">>) @@
    (PATCH :> <<"P", "A", "T", "C", "H">>) @@
    (PRERELEASE :> <<"P", "R", "E", "R", "E", "L", "E", "A", "S", "E">>) @@
    (BUILD :> <<"B", "U", "I", "L", "D">>) @@
    (RELEASE :> <<"R", "E", "L", "E", "A", "S", "E">>) @@
    (CALENDAR :> <<"C", "A", "L", "E", "N", "D", "A", "R">>) @@
    (MICRO :> <<"M", "I", "C", "R", "O">>) @@
    (MODIFIER :> <<"M", "O", "D", "I", "F", "I", "E", "R">>)

(* The kind a text in capitals spells, for the kinds in `kinds`. *)
spelled(upper, kinds) ==
    {kind \in kinds : upper = KindText[kind]}

(* What a call of getIncrementType ends in: the kind returned, or the     *)
(* error thrown.                                                           *)
Returned(kind) == [scheme |-> "kind", increment |-> kind]

returnSpelled(found, increment) ==
    IF found # {}
    THEN Returned(CHOOSE kind \in found : TRUE)
    ELSE Error(<<"Unsupported increment type (">> \o increment \o <<")!">>)

getIncrementType(schemeName, increment) ==
    IF toUpperCase(increment) = KindText[RELEASE]
    THEN Returned(RELEASE)
    ELSE returnSpelled(spelled(toUpperCase(increment),
                               IF schemeName = "semver" THEN {MAJOR, MINOR, PATCH}
                               ELSE IF schemeName = "calver" THEN {CALENDAR, MICRO}
                               ELSE {}),
                       increment)

(* The revision of getIncrementType that goes with incrementVersionSequence. *)
getIncrementTypeLabelled(schemeName, increment) ==
    returnSpelled(spelled(toUpperCase(increment),
                          IF schemeName = "semver" THEN SemVerKinds
                          ELSE IF schemeName = "calver" THEN CalVerKinds
                          ELSE {}),
                  increment)

(* `text.replace(pattern, "")` with a string pattern: the first occurrence. *)
occurrences(text, pattern) ==
    {i \in 1..Len(text) : i + Len(pattern) - 1 <= Len(text)
                          /\ SubSeq(text, i, i + Len(pattern) - 1) = pattern}

removeAt(text, from, length) ==
    SubSeq(text, 1, from - 1) \o SubSeq(text, from + length, Len(text))

firstOf(set) == CHOOSE i \in set : \A j \in set : i <= j

replaceWithNothing(text, pattern) ==
    IF occurrences(text, pattern) = {} THEN text
    ELSE removeAt(text, firstOf(occurrences(text, pattern)), Len(pattern))

(* `text.split("/")` *)
RECURSIVE split(_, _)
split(text, done) ==
    IF occurrences(text, <<"/">>) = {} THEN Append(done, text)
    ELSE split(SubSeq(text, firstOf(occurrences(text, <<"/">>)) + 1, Len(text)),
               Append(done, SubSeq(text, 1, firstOf(occurrences(text, <<"/">>)) - 1)))

RefsHeads == <<"r", "e", "f", "s", "/", "h", "e", "a", "d", "s", "/">>
ReleaseText == <<"r", "e", "l", "e", "a", "s", "e">>

InvalidBranchName ==
    Error(<<"Invalid branch name, expected either 'release/<modifier>' or '<default>'">>)

branchOf_anyLength(branchElements) ==
    IF branchElements[1] # ReleaseText
    THEN InvalidBranchName
    ELSE [type |-> "release",
          modifier |-> IF Len(branchElements) < 2 THEN Undefined ELSE branchElements[2]]

branchOf(branchElements) ==
    IF Len(branchElements) # 2 \/ branchElements[1] # ReleaseText
    THEN InvalidBranchName
    ELSE [type |-> "release", modifier |-> branchElements[2]]

getBranch(ref, default_branch) ==
    IF replaceWithNothing(ref, RefsHeads) = default_branch
    THEN [type |-> "default"]
    ELSE branchOf(split(replaceWithNothing(ref, RefsHeads), <<>>))

IncrementTexts ==
    {<<"m", "a", "j", "o", "r">>, <<"M", "a", "j", "o", "r">>,
     <<"M", "I", "N", "O", "R">>, <<"p", "a", "t", "c", "h">>,
     <<"p", "r", "e", "R", "e", "l", "e", "a", "s", "e">>, <<"B", "U", "I", "L", "D">>,
     <<"r", "e", "l", "e", "a", "s", "e">>, <<"R", "e", "l", "e", "a", "s", "e">>,
     <<"c", "a", "l", "e", "n", "d", "a", "r">>, <<"M", "I", "C", "R", "O">>,
     <<"M", "o", "d", "i", "f", "i", "e", "r">>, <<>>,
     <<"m", "a", "j", "o">>, <<"h", "o", "t", "f", "i", "x">>}

RefTexts ==
    {<<"r", "e", "f", "s", "/", "h", "e", "a", "d", "s", "/", "m", "a", "i", "n">>,
     <<"r", "e", "f", "s", "/", "h", "e", "a", "d", "s", "/", "d", "e", "v">>,
     <<"r", "e", "f", "s", "/", "h", "e", "a", "d", "s", "/", "r", "e", "l", "e", "a", "s", "e", "/", "1", ".", "0">>,
     <<"r", "e", "f", "s", "/", "h", "e", "a", "d", "s", "/", "r", "e", "l", "e", "a", "s", "e", "/", "1", "/", "0">>,
     <<"r", "e", "f", "s", "/", "h", "e", "a", "d", "s", "/", "r", "e", "l", "e", "a", "s", "e">>,
     <<"r", "e", "f", "s", "/", "h", "e", "a", "d", "s", "/", "r", "e", "l", "e", "a", "s", "e", "/">>,
     <<"r", "e", "f", "s", "/", "h", "e", "a", "d", "s", "/", "f", "i", "x", "/", "1">>,
     <<"r", "e", "f", "s", "/", "h", "e", "a", "d", "s", "/", "R", "e", "l", "e", "a", "s", "e", "/", "1">>,
     <<"r", "e", "f", "s", "/", "t", "a", "g", "s", "/", "v", "1">>,
     <<"r", "e", "f", "s", "/", "t", "a", "g", "s", "/", "r", "e", "l", "e", "a", "s", "e", "/", "1">>}

DefaultBranches ==
    {<<"m", "a", "i", "n">>, <<"d", "e", "v">>}

InitInputs ==
    /\ branch = "default"
    /\ scheme \in {"semver", "calver"}
    /\ prefix = Undefined
    /\ isPrerelease = FALSE
    /\ now = FixedNow
    /\ version = NoVersion
    /\ argument \in IncrementTexts \cup RefTexts
    /\ config = NoConfiguration
    /\ commits = <<>>
    /\ out = NoOut
    /\ NoRun

GetIncrementType ==
    /\ out = NoOut /\ argument \in IncrementTexts
    /\ out' = [op |-> "getIncrementType", result |-> getIncrementType(scheme, argument)]
    /\ UNCHANGED <<branch, scheme, prefix, isPrerelease, now, version, config, commits, argument,
                 runVars>>

GetIncrementTypeLabelled ==
    /\ out = NoOut /\ argument \in IncrementTexts
    /\ out' = [op |-> "getIncrementTypeLabelled",
               result |-> getIncrementTypeLabelled(scheme, argument)]
    /\ UNCHANGED <<branch, scheme, prefix, isPrerelease, now, version, config, commits, argument,
                 runVars>>

GetBranch(default_branch) ==
    /\ out = NoOut /\ argument \in RefTexts
    /\ out' = [op |-> "getBranch", default_branch |-> default_branch,
               result |-> getBranch(argument, default_branch)]
    /\ UNCHANGED <<branch, scheme, prefix, isPrerelease, now, version, config, commits, argument,
                 runVars>>

NextInputs ==
    \/ GetIncrementType
    \/ GetIncrementTypeLabelled
    \/ \E default_branch \in DefaultBranches : GetBranch(default_branch)

SpecInputs == InitInputs /\ [][NextInputs]_vars

----------------------------------------------------------------------------
(* run: one run of the action, from the ref to the release *)

MainBranch == <<"m", "a", "i", "n">>

RunRefs == {<<"r", "e", "f", "s", "/", "h", "e", "a", "d", "s", "/", "m", "a", "i", "n">>, <<"r", "e", "f", "s", "/", "h", "e", "a", "d", "s", "/", "r", "e", "l", "e", "a", "s", "e", "/", "0", ".", "1">>, <<"r", "e", "f", "s", "/", "h", "e", "a", "d", "s", "/", "f", "i", "x", "/", "1">>}
RunSchemes == {"semver", "calver", "romver"}
RunVersions == {Empty, <<"1", ".", "0", ".", "0">>, <<"1", ".", "0", ".", "0", "-", "r", "c", ".", "1">>, <<"1", ".", "0">>}
RunIncrementTypes == {Empty, <<"m", "i", "n", "o", "r">>, <<"m", "a", "j", "o">>}
RunTags ==
    {<<>>, <<<<"0", ".", "1", ".", "0">>>>, <<<<"2", "0", "2", "3", ".", "0", "5", ".", "0">>>>, <<<<"n", "i", "g", "h", "t", "l", "y">>>>,
     <<<<"0", ".", "1", ".", "0">>, <<"n", "i", "g", "h", "t", "l", "y">>>>,
     <<<<"0", ".", "1", ".", "1">>, <<"0", ".", "1", ".", "0">>>>}
RunChanges ==
    {<<>>,
     <<Commit(TRUE, FALSE, feat, Undefined, <<"a", "d", "d">>)>>,
     <<Commit(TRUE, FALSE, <<"d", "o", "c", "s">>, Undefined, Empty)>>}

(* The inputs of the action and what the run finds around it: the release  *)
(* tags and the changes on the remote, the files on disk.                  *)
InputPool ==
    [given : {TRUE}, ref : RunRefs, version : RunVersions,
     incrementType : RunIncrementTypes, createRelease : BOOLEAN,
     releaseNotes : {"none", "file", "missing"}, files : {"none", "file", "missing"},
     tags : RunTags, changes : RunChanges]

StartedLocal ==
    [set |-> TRUE, modifier |-> Undefined, latestRef |-> Undefined, since |-> Undefined,
     latestVersion |-> NoVersion, increment |-> Empty, newVersion |-> NoVersion,
     commits |-> <<>>, raised |-> <<>>]

InitRun ==
    /\ branch = "default"
    /\ scheme \in RunSchemes
    /\ prefix \in {Undefined, <<"v">>}
    /\ isPrerelease = FALSE
    /\ now = FixedNow
    /\ version = NoVersion
    /\ config = NoConfiguration
    /\ commits = <<>>
    /\ out = NoOut
    /\ argument = Empty
    /\ input \in InputPool
    /\ pc = "getBranch"
    /\ local = StartedLocal
    /\ remote = NoRemote
    /\ outputs = NoOutputs
    /\ failed = <<>>

IsError(result) == "message" \in DOMAIN result

(* The errors of the remote and of the disk. *)
RequestFailed == Error(<<"Request failed">>)
NotFound == Error(<<"Not Found">>)
NoSuchFile == Error(<<"ENOENT: no such file or directory">>)
UnsupportedScheme(name) == Error(<<"Unsupported versioning scheme (", name, ")!">>)
CannotParse(sch) ==
    Error(IF sch = "semver" THEN <<"Could not parse SemVer">> ELSE <<"Could not parse CalVer">>)
CannotIncrement(incrementType) ==
    Error(<<"Cannot increment version of unknown type: ">> \o incrementType \o <<"!">>)
NoReleasesFound == Error(<<"Incorrect release branch pattern, no releases found!">>)
PathDoesNotExist == Error(<<"Path '...' does not exist!">>)

(* An error raised during the run and the place that caught it. *)
Raised(error, by) == [error |-> error, caught |-> by]

(* `core.setFailed((ex as Error).message)` *)
setFailed_silent(messages, ex) == messages

setFailed(messages, ex) == Append(messages, ex.message)

(* The catch clause of run. *)
Catch(ex) ==
    /\ failed' = setFailed(failed, ex)
    /\ local' = [local EXCEPT !.raised = Append(@, Raised(ex, "run"))]
    /\ pc' = "done"

RunFrame == UNCHANGED <<scheme, prefix, isPrerelease, now, version, config, commits, out,
                        argument, input>>

RunGetBranch ==
    /\ pc = "getBranch"
    /\ IF IsError(getBranch(input.ref, MainBranch))
       THEN Catch(getBranch(input.ref, MainBranch)) /\ UNCHANGED branch
       ELSE /\ branch' = getBranch(input.ref, MainBranch).type
            /\ local' = [local EXCEPT !.modifier =
                            IF getBranch(input.ref, MainBranch).type = "release"
                            THEN getBranch(input.ref, MainBranch).modifier ELSE Undefined]
            /\ pc' = "getVersionScheme"
            /\ UNCHANGED failed
    /\ UNCHANGED <<remote, outputs>>
    /\ RunFrame

RunGetVersionScheme ==
    /\ pc = "getVersionScheme"
    /\ IF scheme \notin {"semver", "calver"}
       THEN Catch(UnsupportedScheme(scheme))
       ELSE /\ pc' = IF input.version # Empty THEN "createVersion" ELSE "getLatestRelease"
            /\ UNCHANGED <<local, failed>>
    /\ UNCHANGED <<branch, remote, outputs>>
    /\ RunFrame

(* The version override. *)
RunCreateVersion ==
    /\ pc = "createVersion"
    /\ IF createVersion(scheme, input.version, prefix) = Thrown
       THEN Catch(CannotParse(scheme)) /\ UNCHANGED outputs
       ELSE /\ local' = [local EXCEPT !.newVersion = createVersion(scheme, input.version, prefix)]
            /\ outputs' = outputs \cup {"incremented-version"}
            /\ pc' = "getBooleanInput"
            /\ UNCHANGED failed
    /\ UNCHANGED <<branch, remote>>
    /\ RunFrame

(* Variant: isValid lets every tag through. *)
isValidVersion_anyTag(sch, text, pfx, created) == TRUE

(* VersionScheme.isValid *)
isValidVersion(sch, text, pfx, created) ==
    IF created = Thrown THEN FALSE ELSE created.prefix = pfx

isValid(sch, text, pfx) == isValidVersion(sch, text, pfx, createVersion(sch, text, pfx))

(* The errors isValid catches while getReleases filters the tags. *)
caughtByIsValid(sch, tags, pfx) ==
    [i \in DOMAIN SelectSeq(tags, LAMBDA tag : createVersion(sch, tag, pfx) = Thrown) |->
        Raised(CannotParse(sch), "isValid")]

(* `(a, b) => compareVersions(createVersion(a.tag_name), createVersion(b.tag_name))` *)
compareTags(sch, pfx, a, b) ==
    compareVersions(createVersion(sch, a, pfx), createVersion(sch, b, pfx))

Front(list) == SubSeq(list, 1, Len(list) - 1)
Last(list) == list[Len(list)]

(* `Array.prototype.sort` with a compare function: ascending, elements     *)
(* that compare equal stay in the order they came in.                      *)
RECURSIVE insert(_, _, _, _)
insert(done, tag, sch, pfx) ==
    IF done = <<>> THEN <<tag>>
    ELSE IF compareTags(sch, pfx, Last(done), tag) <= 0 THEN Append(done, tag)
    ELSE Append(insert(Front(done), tag, sch, pfx), Last(done))

RECURSIVE sort(_, _, _, _, _)
sort(list, i, done, sch, pfx) ==
    IF i > Len(list) THEN done
    ELSE sort(list, i + 1, insert(done, list[i], sch, pfx), sch, pfx)

(* Variant: the valid tags are taken in the order the remote lists them. *)
sortedreleases_unsorted(sch, tags, pfx) ==
    SelectSeq(tags, LAMBDA tag : isValid(sch, tag, pfx))

(* getReleases: the tags that are versions of the scheme, sorted; on a     *)
(* release branch those that start with the modifier.                      *)
sortedreleases(sch, tags, pfx) ==
    sort(SelectSeq(tags, LAMBDA tag : isValid(sch, tag, pfx)), 1, <<>>, sch, pfx)

hotfixReleases(releases, modifier) ==
    SelectSeq(releases, LAMBDA tag : startsWith(tag, modifier))

getReleases(br, modifier, releases) ==
    IF br = "release" /\ modifier # Undefined
    THEN IF hotfixReleases(releases, modifier) = <<>> THEN NoReleasesFound
         ELSE [releases |-> hotfixReleases(releases, modifier)]
    ELSE [releases |-> releases]

(* getLatestRelease: the tag of the last release, undefined without one. *)
latestOf(got) ==
    IF IsError(got) THEN got
    ELSE IF Len(got.releases) = 0 THEN [tag_name |-> Undefined]
    ELSE [tag_name |-> Last(got.releases)]

getLatestRelease(br, modifier, sch, tags, pfx) ==
    latestOf(getReleases(br, modifier, sortedreleases(sch, tags, pfx)))

InitialCommit == <<"initial commit">>

(* What run does with the answer of getLatestRelease. *)
GotReleases(latestRelease) ==
    IF IsError(latestRelease) THEN Catch(latestRelease)
    ELSE /\ local' = [local EXCEPT
                !.latestRef = latestRelease.tag_name,
                !.latestVersion = IF latestRelease.tag_name = Undefined THEN NoVersion
                                  ELSE createVersion(scheme, latestRelease.tag_name, prefix),
                !.raised = @ \o caughtByIsValid(scheme, input.tags, prefix)]
         /\ pc' = IF latestRelease.tag_name = Undefined THEN "getInitialCommit" ELSE "getInput"
         /\ UNCHANGED failed

RunGetLatestRelease(answer) ==
    /\ pc = "getLatestRelease"
    /\ IF answer = "fails" THEN Catch(RequestFailed)
       ELSE GotReleases(getLatestRelease(branch, local.modifier, scheme, input.tags, prefix))
    /\ UNCHANGED <<branch, remote, outputs>>
    /\ RunFrame

(* Variant: the initial version does not take the prefix. *)
initialVersion_withoutPrefix(sch, pfx) ==
    IF sch = "semver" THEN SemVer(Undefined, 0, 0, 0, Undefined, Undefined)
    ELSE CalVer(Undefined, 0, 0, 0, <<>>)

(* SemVerScheme.initialVersion / CalVerScheme.initialVersion *)
initialVersion(sch, pfx) ==
    IF sch = "semver" THEN SemVer(pfx, 0, 0, 0, Undefined, Undefined)
    ELSE CalVer(pfx, 0, 0, 0, <<>>)

RunGetInitialCommit(answer) ==
    /\ pc = "getInitialCommit"
    /\ IF answer = "fails" THEN Catch(RequestFailed)
       ELSE /\ local' = [local EXCEPT !.latestRef = InitialCommit,
                                      !.latestVersion = initialVersion(scheme, prefix)]
            /\ pc' = "getInput"
            /\ UNCHANGED failed
    /\ UNCHANGED <<branch, remote, outputs>>
    /\ RunFrame

(* `if (core.getInput("increment-type"))` *)
RunGetInput ==
    /\ pc = "getInput"
    /\ IF input.incrementType = Empty
       THEN pc' = "getChangesSince" /\ UNCHANGED <<local, failed>>
       ELSE IF IsError(getIncrementType(scheme, input.incrementType))
       THEN Catch(getIncrementType(scheme, input.incrementType))
       ELSE /\ local' = [local EXCEPT
                    !.increment = getIncrementType(scheme, input.incrementType).increment]
            /\ pc' = "incrementVersion"
            /\ UNCHANGED failed
    /\ UNCHANGED <<branch, remote, outputs>>
    /\ RunFrame

filterConventionalCommits(list) == SelectSeq(list, LAMBDA c : c.isValid)

RunGetChangesSince(answer) ==
    /\ pc = "getChangesSince"
    /\ IF answer = "fails" THEN Catch(RequestFailed)
       ELSE /\ local' = [local EXCEPT
                    !.since = local.latestRef,
                    !.commits = filterConventionalCommits(input.changes),
                    !.increment = determineIncrementType(
                        scheme, filterConventionalCommits(input.changes), branch)]
            /\ pc' = "incrementVersion"
            /\ UNCHANGED failed
    /\ UNCHANGED <<branch, remote, outputs>>
    /\ RunFrame

(* `if (increment === undefined) { ...; return; }` *)
skips_never(increment) == FALSE

skips(increment) == increment = Undefined

IncrementedTo(newVersion) ==
    IF newVersion = Thrown
    THEN Catch(CannotIncrement(local.increment)) /\ outputs' = outputs \cup {"previous-version"}
    ELSE /\ local' = [local EXCEPT !.newVersion = newVersion]
         /\ outputs' = outputs \cup {"previous-version", "incremented-version"}
         /\ pc' = "getBooleanInput"
         /\ UNCHANGED failed

RunIncrementVersion ==
    /\ pc = "incrementVersion"
    /\ IF skips(local.increment)
       THEN pc' = "done" /\ UNCHANGED <<local, outputs, failed>>
       ELSE IncrementedTo(incrementVersion(local.latestVersion, local.increment,
                                           isPrerelease, branch, prefix, now))
    /\ UNCHANGED <<branch, remote>>
    /\ RunFrame

(* `if (!core.getBooleanInput("create-release")) return;` *)
RunGetBooleanInput ==
    /\ pc = "getBooleanInput"
    /\ pc' = IF ~input.createRelease THEN "done"
             ELSE IF input.releaseNotes # "none" THEN "readChangelogFromFile"
             ELSE "generateChangelog"
    /\ UNCHANGED <<branch, local, remote, outputs, failed>>
    /\ RunFrame

RunReadChangelogFromFile ==
    /\ pc = "readChangelogFromFile"
    /\ IF input.releaseNotes = "missing" THEN Catch(NoSuchFile)
       ELSE pc' = "createRelease" /\ UNCHANGED <<local, failed>>
    /\ UNCHANGED <<branch, remote, outputs>>
    /\ RunFrame

(* generateChangelog asks the remote for the configuration;                *)
(* getConfigurationFromAPI catches the answer Not Found and the default    *)
(* configuration is used.                                                  *)
RunGenerateChangelog(answer) ==
    /\ pc = "generateChangelog"
    /\ IF answer = "fails" THEN Catch(RequestFailed)
       ELSE /\ local' = [local EXCEPT !.raised =
                    IF answer = "Not Found"
                    THEN Append(@, Raised(NotFound, "getConfigurationFromAPI")) ELSE @]
            /\ pc' = "createRelease"
            /\ UNCHANGED failed
    /\ UNCHANGED <<branch, remote, outputs>>
    /\ RunFrame

(* Version.toString *)
versionToString(v) == IF v.scheme = "calver" THEN CalVerToString(v) ELSE SemVerToString(v)

(* Variant: every release is made the latest one. *)
createRelease_alwaysLatest(v, br) ==
    [name |-> versionToString(v),
     prerelease |-> IF v.scheme = "semver" THEN v.preRelease # Undefined ELSE FALSE,
     make_latest |-> "true",
     tag_name |-> versionToString(v)]

(* The request createRelease sends. *)
createRelease(v, br) ==
    [name |-> versionToString(v),
     prerelease |-> IF v.scheme = "semver" THEN v.preRelease # Undefined ELSE FALSE,
     make_latest |-> IF br = "default" THEN "true" ELSE "false",
     tag_name |-> versionToString(v)]

RunCreateRelease(answer) ==
    /\ pc = "createRelease"
    /\ IF answer = "fails" THEN Catch(RequestFailed) /\ UNCHANGED remote
       ELSE /\ remote' = [remote EXCEPT !.releases = @ + 1,
                                        !.request = createRelease(local.newVersion, branch)]
            /\ pc' = "updateAssets"
            /\ UNCHANGED <<local, failed>>
    /\ UNCHANGED <<branch, outputs>>
    /\ RunFrame

(* updateAssets, and the outputs that follow it. *)
RunUpdateAssets(answer) ==
    /\ pc = "updateAssets"
    /\ IF input.files = "missing" THEN Catch(PathDoesNotExist) /\ UNCHANGED <<remote, outputs>>
       ELSE IF input.files = "file" /\ answer = "fails"
       THEN Catch(RequestFailed) /\ UNCHANGED <<remote, outputs>>
       ELSE /\ remote' = [remote EXCEPT !.assets = IF input.files = "file" THEN @ + 1 ELSE @]
            /\ outputs' = outputs \cup {"release", "created"}
            /\ pc' = "done"
            /\ UNCHANGED <<local, failed>>
    /\ UNCHANGED branch
    /\ RunFrame

NextRun ==
    \/ RunGetBranch
    \/ RunGetVersionScheme
    \/ RunCreateVersion
    \/ \E answer \in {"ok", "fails"} : RunGetLatestRelease(answer)
    \/ \E answer \in {"ok", "fails"} : RunGetInitialCommit(answer)
    \/ RunGetInput
    \/ \E answer \in {"ok", "fails"} : RunGetChangesSince(answer)
    \/ RunIncrementVersion
    \/ RunGetBooleanInput
    \/ RunReadChangelogFromFile
    \/ \E answer \in {"ok", "Not Found", "fails"} : RunGenerateChangelog(answer)
    \/ \E answer \in {"ok", "fails"} : RunCreateRelease(answer)
    \/ \E answer \in {"ok", "fails"} : RunUpdateAssets(answer)

SpecRun == InitRun /\ [][NextRun]_vars

----------------------------------------------------------------------------
(* updateAssets: the assets of a release are replaced by artifacts and files *)

MaxArtifactFiles == 2
MaxFiles == 2

ArtifactName == "output-as-artifact"
FileNames == <<"a.bin", "b.bin", "c.bin", "d.bin">>
FilePool == {"output.txt", "notes.md"}

(* `fs.readdirSync(dirname)` of a downloaded artifact that holds n files. *)
readdirSync(n) == SubSeq(FileNames, 1, n)

(* `{ filepath: path.join(dirname, file), label: arti }` *)
downloaded(arti, file) == [filepath |-> [dir |-> arti, base |-> file], label |-> arti]

RECURSIVE downloadArtifacts(_, _)
downloadArtifacts(artifacts, i) ==
    IF i > Len(artifacts) THEN <<>>
    ELSE [k \in 1..artifacts[i].files |->
             downloaded(artifacts[i].name, readdirSync(artifacts[i].files)[k])]
         \o downloadArtifacts(artifacts, i + 1)

(* `files.map(f => ({ filepath: f, label: f }))` *)
fileAssets(files) ==
    [k \in DOMAIN files |-> [filepath |-> [dir |-> "", base |-> files[k]], label |-> files[k]]]

(* `fs.existsSync(asset.filepath)`: a downloaded file is there, a listed   *)
(* file may not be.                                                        *)
existsSync(filepath, onDisk) == filepath.dir # "" \/ filepath.base \in onDisk

NoAsset == [id |-> 0]

(* `currentAssets.find(a => a.label === asset.label)` *)
RECURSIVE find(_, _, _)
find(currentAssets, label, i) ==
    IF i > Len(currentAssets) THEN NoAsset
    ELSE IF currentAssets[i].label = label THEN currentAssets[i]
    ELSE find(currentAssets, label, i + 1)

(* The assets of the release in the order the remote lists them, by id. *)
RECURSIVE listed(_)
listed(onRelease) ==
    IF onRelease = {} THEN <<>>
    ELSE <<CHOOSE a \in onRelease : \A b \in onRelease : a.id <= b.id>>
         \o listed(onRelease \ {CHOOSE a \in onRelease : \A b \in onRelease : a.id <= b.id})

ExistingAssets ==
    {[id |-> 1, name |-> "output.txt", label |-> "output.txt"],
     [id |-> 2, name |-> "a.bin", label |-> ArtifactName]}

AssetInputs ==
    [given : {TRUE},
     artifacts : {<<>>} \cup {<<[name |-> ArtifactName, files |-> n]>> : n \in 0..MaxArtifactFiles},
     files : UNION {[1..n -> FilePool] : n \in 0..MaxFiles},
     onDisk : {FilePool, {"output.txt"}}]

InitAssets ==
    /\ branch = "default"
    /\ scheme = "semver"
    /\ prefix = Undefined
    /\ isPrerelease = FALSE
    /\ now = FixedNow
    /\ version = NoVersion
    /\ config = NoConfiguration
    /\ commits = <<>>
    /\ out = NoOut
    /\ argument = Empty
    /\ input \in AssetInputs
    /\ pc = "downloadArtifacts"
    /\ local = [set |-> TRUE, assets |-> <<>>, currentAssets |-> <<>>, i |-> 1,
                deleted |-> <<>>, raised |-> <<>>]
    /\ remote \in [onRelease : SUBSET ExistingAssets, nextId : {3}]
    /\ outputs = NoOutputs
    /\ failed = <<>>

AssetsFrame == UNCHANGED <<branch, scheme, prefix, isPrerelease, now, version, config, commits,
                           out, argument, input, outputs>>

(* The asset list is put together; an empty one ends the call. *)
DownloadArtifacts(answer) ==
    /\ pc = "downloadArtifacts"
    /\ IF input.artifacts # <<>> /\ answer = "fails" THEN Catch(RequestFailed)
       ELSE /\ local' = [local EXCEPT !.assets = downloadArtifacts(input.artifacts, 1)
                                                   \o fileAssets(input.files)]
            /\ pc' = IF Len(downloadArtifacts(input.artifacts, 1) \o fileAssets(input.files)) = 0
                     THEN "done" ELSE "listReleaseAssets"
            /\ UNCHANGED failed
    /\ UNCHANGED remote
    /\ AssetsFrame

(* The assets of the release are listed once, before the loop. *)
ListReleaseAssets(answer) ==
    /\ pc = "listReleaseAssets"
    /\ IF answer = "fails" THEN Catch(RequestFailed)
       ELSE /\ local' = [local EXCEPT !.currentAssets = listed(remote.onRelease)]
            /\ pc' = "deleteReleaseAsset"
            /\ UNCHANGED failed
    /\ UNCHANGED remote
    /\ AssetsFrame

(* The remote without the asset of that id. *)
withoutAsset(onRelease, id) == {a \in onRelease : a.id # id}

(* What deleteReleaseAsset is asked for and what it does: an id that is    *)
(* not on the release is not found.                                        *)
Deleted(matchedAsset, answer) ==
    IF matchedAsset = NoAsset
    THEN pc' = "uploadReleaseAsset" /\ UNCHANGED <<local, remote, failed>>
    ELSE IF answer = "fails" \/ withoutAsset(remote.onRelease, matchedAsset.id) = remote.onRelease
    THEN /\ failed' = setFailed(failed, IF answer = "fails" THEN RequestFailed ELSE NotFound)
         /\ local' = [local EXCEPT
                        !.deleted = Append(@, matchedAsset.id),
                        !.raised = Append(@, Raised(IF answer = "fails" THEN RequestFailed
                                                    ELSE NotFound, "run"))]
         /\ pc' = "done"
         /\ UNCHANGED remote
    ELSE /\ local' = [local EXCEPT !.deleted = Append(@, matchedAsset.id)]
         /\ remote' = [remote EXCEPT !.onRelease = withoutAsset(@, matchedAsset.id)]
         /\ pc' = "uploadReleaseAsset"
         /\ UNCHANGED failed

(* The first half of a turn of the loop: the path is looked up, the asset  *)
(* of the same label found in the listing is deleted.                      *)
DeleteReleaseAsset(answer) ==
    /\ pc = "deleteReleaseAsset"
    /\ IF ~existsSync(local.assets[local.i].filepath, input.onDisk)
       THEN Catch(PathDoesNotExist) /\ UNCHANGED remote
       ELSE Deleted(find(local.currentAssets, local.assets[local.i].label, 1), answer)
    /\ AssetsFrame

(* The asset as the remote stores it: `name: path.parse(asset.filepath).base`. *)
uploaded(asset, id) == [id |-> id, name |-> asset.filepath.base, label |-> asset.label]

(* The second half: the asset is uploaded and the loop moves on. *)
UploadReleaseAsset(answer) ==
    /\ pc = "uploadReleaseAsset"
    /\ IF answer = "fails" THEN Catch(RequestFailed) /\ UNCHANGED remote
       ELSE /\ remote' = [onRelease |-> remote.onRelease
                                          \cup {uploaded(local.assets[local.i], remote.nextId)},
                          nextId |-> remote.nextId + 1]
            /\ local' = [local EXCEPT !.i = @ + 1]
            /\ pc' = IF local.i + 1 > Len(local.assets) THEN "done" ELSE "deleteReleaseAsset"
            /\ UNCHANGED failed
    /\ AssetsFrame

NextAssets ==
    \/ \E answer \in {"ok", "fails"} : DownloadArtifacts(answer)
    \/ \E answer \in {"ok", "fails"} : ListReleaseAssets(answer)
    \/ \E answer \in {"ok", "fails"} : DeleteReleaseAsset(answer)
    \/ \E answer \in {"ok", "fails"} : UploadReleaseAsset(answer)

SpecAssets == InitAssets /\ [][NextAssets]_vars

----------------------------------------------------------------------------
(* getLatestRelease applied to the releases the remote lists *)

MaxReleases == 2

TagPool ==
    {<<"0", ".", "1", ".", "0">>,
     <<"0", ".", "1", ".", "1">>,
     <<"0", ".", "2", ".", "0">>,
     <<"0", ".", "1", ".", "0", "-", "r", "c", ".", "1">>,
     <<"0", ".", "1", ".", "0", "-", "a", "l", "p", "h", "a">>,
     <<"v", "0", ".", "1", ".", "0">>,
     <<"n", "i", "g", "h", "t", "l", "y">>,
     <<"2", "0", "2", "3", ".", "0", "5", ".", "0">>,
     <<"2", "0", "2", "3", ".", "0", "6", ".", "0">>}

(* The releases as the remote lists them, no tag twice. *)
Listings ==
    UNION {{list \in [1..n -> TagPool] : \A i, j \in 1..n : list[i] = list[j] => i = j} :
           n \in 0..MaxReleases}

(* The modifier of the branch: none on the default branch, the X of release/X. *)
ModifierPool == {Undefined, <<"0", ".", "1">>, <<"0", ".", "3">>}

InitReleases ==
    /\ scheme \in {"semver", "calver"}
    /\ prefix \in {Undefined, <<"v">>}
    /\ input \in [given : {TRUE}, tags : Listings, modifier : ModifierPool]
    /\ branch = IF input.modifier = Undefined THEN "default" ELSE "release"
    /\ isPrerelease = FALSE
    /\ now = FixedNow
    /\ version = NoVersion
    /\ config = NoConfiguration
    /\ commits = <<>>
    /\ out = NoOut
    /\ argument = Empty
    /\ pc = "idle" /\ local = NoLocal /\ remote = NoRemote
    /\ outputs = NoOutputs /\ failed = <<>>

GetLatestRelease ==
    /\ out = NoOut
    /\ out' = [op |-> "getLatestRelease",
               result |-> getLatestRelease(branch, input.modifier, scheme, input.tags, prefix)]
    /\ UNCHANGED <<branch, scheme, prefix, isPrerelease, now, version, config, commits, argument,
                 runVars>>

NextReleases == GetLatestRelease

SpecReleases == InitReleases /\ [][NextReleases]_vars

----------------------------------------------------------------------------
(* Properties of the scheme's increment determination *)

ValidCommits == {i \in DOMAIN commits : commits[i].isValid}
AnyBreaking == \E i \in ValidCommits : commits[i].breaking
AnyOfType(t) == \E i \in ValidCommits : toLowerCase(commits[i].type) = t
Determined == out.op = "determineIncrementType"

(* C1: on the Default branch SemVerScheme.determineIncrementType returns   *)
(* MAJOR if any valid commit is breaking, else MINOR if any valid commit   *)
(* has type feat (case-insensitively), else PATCH if any valid commit has  *)
(* type fix, else nothing; invalid commits and commit order do not matter. *)
C1_DefaultBranchIncrement ==
    (Determined /\ scheme = "semver" /\ branch = "default") =>
        out.result = IF AnyBreaking THEN MAJOR
                     ELSE IF AnyOfType(feat) THEN MINOR
                     ELSE IF AnyOfType(fix) THEN PATCH
                     ELSE Undefined

C1_Witness ==
    /\ Determined /\ scheme = "semver" /\ branch = "default"
    /\ Len(commits) = 2
    /\ ~commits[1].isValid /\ commits[1].breaking
    /\ commits[2].isValid /\ commits[2].type = <<"F", "e", "a", "t">>
    /\ out.result = MINOR

(* C2: on a Release branch SemVerScheme.determineIncrementType returns     *)
(* PATCH when at least one valid commit is breaking, feat or fix, and      *)
(* nothing otherwise; it never returns MAJOR or MINOR.                     *)
C2_ReleaseBranchIncrement ==
    (Determined /\ scheme = "semver" /\ branch = "release") =>
        out.result = IF AnyBreaking \/ AnyOfType(feat) \/ AnyOfType(fix)
                     THEN PATCH ELSE Undefined

C2_Witness ==
    /\ Determined /\ scheme = "semver" /\ branch = "release"
    /\ Len(commits) = 2
    /\ commits[1].isValid /\ commits[1].breaking
    /\ commits[2].isValid /\ commits[2].type = feat
    /\ out.result = PATCH

----------------------------------------------------------------------------
(* Properties of the changelog *)

Rendered == out.op = "generateChangelog"

ConfiguredCategories ==
    IF config = NoConfiguration THEN defaultConfiguration(scheme).categories
    ELSE config.categories

TopLevelExclude ==
    IF config = NoConfiguration THEN defaultConfiguration(scheme).exclude
    ELSE config.exclude

Has(list, value) == value \in (list \ {Undefined})

FilterPasses(include, categoryExclude, topExclude, value) ==
    /\ (include = UndefinedList \/ Has(include, Star) \/ Has(include, value))
    /\ ~Has(categoryExclude, value)
    /\ ~Has(topExclude, value)

ListedUnder(c, j) == \E k \in DOMAIN out.listed[c] : out.listed[c][k] = j

(* C9: generateChangelog lists a commit under a category iff the commit is *)
(* valid and the increment, type and scope filters all pass; a filter      *)
(* passes iff the category include-list holds the value or the wildcard    *)
(* (an unset include-list counts as the wildcard) and neither the category *)
(* exclude-list nor the top-level exclude-list holds the value.            *)
C9_ListedIffFiltersPass ==
    Rendered =>
        \A c \in DOMAIN ConfiguredCategories : \A j \in DOMAIN commits :
            LET category == ConfiguredCategories[c]
                commit == commits[j]
            IN  ListedUnder(c, j) <=>
                  /\ commit.isValid
                  /\ FilterPasses(category.increment, category.exclude.increment,
                                  TopLevelExclude.increment,
                                  determineIncrementType(scheme, <<commit>>, branch))
                  /\ FilterPasses(category.types, category.exclude.types,
                                  TopLevelExclude.types, commit.type)
                  /\ FilterPasses(category.scopes, category.exclude.scopes,
                                  TopLevelExclude.scopes, commit.scope)

C9_Witness ==
    /\ Rendered /\ config = ExampleConfiguration /\ scheme = "semver"
    /\ Len(commits) = 2
    /\ commits[1].type = docs /\ commits[1].scope = api /\ ListedUnder(4, 1)
    /\ commits[2].type = fix /\ commits[2].scope = core
    /\ \A c \in DOMAIN out.listed : ~ListedUnder(c, 2)

PresentBlocks ==
    LET cfg == getConfiguration(scheme, config)
        blocks == [c \in DOMAIN cfg.categories |->
                     categoryBlock(cfg.categories[c], commits, out.listed[c])]
    IN  SelectSeq(blocks, LAMBDA b : b # Undefined)

(* C10: the changelog is the header followed by one block per category     *)
(* that lists at least one commit, in configuration order; a category that *)
(* lists no commit contributes nothing, neither heading nor separator.     *)
C10_EmptyCategoryContributesNothing ==
    Rendered => out.result = Title \o NL \o NL \o join(PresentBlocks, NL)

----------------------------------------------------------------------------
(* Properties of the increment engine *)

Incremented == out.op = "incrementVersion"
CoreKinds == IF version.scheme = "semver" THEN {MAJOR, MINOR, PATCH} ELSE {CALENDAR, MICRO}
SameMonth == version.scheme = "calver" /\ now.year = version.major /\ now.month = version.minor
BranchLabel == IF branch = "release" THEN rc ELSE dev

(* C3: for every version V and every core increment kind of its scheme     *)
(* (Major, Minor, Patch; Calendar, Micro) the incremented version compares *)
(* strictly greater than V.                                                *)
C3_CoreIncrementIsGreater ==
    (Incremented /\ out.type \in CoreKinds) =>
        /\ out.result # Thrown
        /\ compareVersions(out.result, version) = 1

(* C4: with prerelease mode on, a core increment returns a version with    *)
(* exactly one pre-release identifier (SemVer) or modifier (CalVer); its   *)
(* label is rc on a release branch and dev on the default branch, and no   *)
(* identifier of another label of the input is left.                       *)
C4_PrereleaseCarriesBranchLabel ==
    (Incremented /\ isPrerelease /\ out.type \in CoreKinds) =>
        /\ out.result # Thrown
        /\ IF version.scheme = "semver"
           THEN /\ identifierKeyValue(out.result.preRelease).key = BranchLabel \o <<".">>
                /\ identifierKeyValue(out.result.preRelease).value >= 1
           ELSE /\ Len(out.result.modifiers) = 1
                /\ out.result.modifiers[1].identifier = BranchLabel

C4_Witness ==
    /\ Incremented /\ isPrerelease /\ out.type = CALENDAR
    /\ SameMonth /\ branch = "default"
    /\ version.modifiers = <<Identifier(rc, 2)>>
    /\ out.result.modifiers = <<Identifier(dev, 1)>>

HasPreRelease(v) ==
    IF v.scheme = "semver" THEN v.preRelease # Undefined ELSE Len(v.modifiers) > 0

(* C5: with prerelease mode off, RELEASE returns V without pre-release     *)
(* identifiers or modifiers, core fields and prefix unchanged; when V has  *)
(* none the result equals V in every field, and RELEASE applied to the     *)
(* result returns the result.                                              *)
C5_ReleaseStripsPreRelease ==
    (Incremented /\ ~isPrerelease /\ out.type = RELEASE) =>
        /\ out.result # Thrown
        /\ ~HasPreRelease(out.result)
        /\ out.result.prefix = version.prefix
        /\ out.result.major = version.major
        /\ out.result.minor = version.minor
        /\ IF version.scheme = "semver" THEN out.result.patch = version.patch
                                        ELSE out.result.micro = version.micro
        /\ ~HasPreRelease(version) => out.result = version
        /\ incrementVersion(out.result, RELEASE, isPrerelease, branch, prefix, now) = out.result

C5_Witness ==
    /\ Incremented /\ ~isPrerelease /\ out.type = RELEASE
    /\ version.scheme = "semver" /\ prefix = <<"v">>
    /\ version.preRelease = <<"r", "c", ".", "1">>
    /\ out.result = [version EXCEPT !.preRelease = Undefined]

(* C6: with prerelease mode on, RELEASE returns V unchanged in every       *)
(* field, pre-release identifier or modifier included, for both schemes.   *)
C6_ReleaseIsNoOpInPrereleaseMode ==
    (Incremented /\ isPrerelease /\ out.type = RELEASE) => out.result = version

C6_Witness ==
    /\ Incremented /\ isPrerelease /\ out.type = RELEASE
    /\ version.scheme = "calver"
    /\ version.modifiers = <<Identifier(rc, 2)>>
    /\ out.result = version

----------------------------------------------------------------------------
(* Properties of the SemVer value type *)

(* C12: every text that fromString accepts under its prefix is returned    *)
(* by toString character for character.                                    *)
C12_RoundTrip ==
    (out.op = "fromString" /\ out.result # Thrown) => out.text = argument

Sorted == out.op = "sortSemVer"
SameCore(a, b) == a.major = b.major /\ a.minor = b.minor /\ a.patch = b.patch
Value(identifier) == identifierKeyValue(identifier).value

(* The identifier rule of the claim: absent above present, then by number. *)
IdentifierRule(x, y, result) ==
    /\ (x = Undefined /\ y # Undefined) => result = 1
    /\ (x # Undefined /\ y = Undefined) => result = -1
    /\ (Value(x) # -1 /\ Value(y) # -1 /\ Value(x) # Value(y)) =>
            result = IF Value(x) > Value(y) THEN 1 ELSE -1

(* C13: versions are ordered by (major, minor, patch); with equal cores a  *)
(* version without pre-release ranks above one with any pre-release, two   *)
(* pre-releases are ordered by number, and when the pre-releases tie the   *)
(* build identifier decides by the same rule.                              *)
C13_SortOrder ==
    Sorted =>
        /\ version.major # out.b.major =>
                out.result = IF version.major > out.b.major THEN 1 ELSE -1
        /\ (version.major = out.b.major /\ version.minor # out.b.minor) =>
                out.result = IF version.minor > out.b.minor THEN 1 ELSE -1
        /\ (version.major = out.b.major /\ version.minor = out.b.minor
                /\ version.patch # out.b.patch) =>
                out.result = IF version.patch > out.b.patch THEN 1 ELSE -1
        /\ SameCore(version, out.b) =>
                IdentifierRule(version.preRelease, out.b.preRelease, out.result)
        /\ (SameCore(version, out.b) /\ version.preRelease = out.b.preRelease) =>
                IdentifierRule(version.build, out.b.build, out.result)

(* C14: Major gives (major+1, 0, 0), Minor (major, minor+1, 0), Patch      *)
(* (major, minor, patch+1); the result has neither pre-release nor build   *)
(* and keeps the prefix.                                                   *)
C14_BumpResets ==
    (out.op = "bump" /\ out.type \in {"major", "minor", "patch"}) =>
        /\ out.result # Thrown
        /\ out.result.major = version.major + (IF out.type = "major" THEN 1 ELSE 0)
        /\ out.result.minor = IF out.type = "major" THEN 0
                              ELSE version.minor + (IF out.type = "minor" THEN 1 ELSE 0)
        /\ out.result.patch = IF out.type = "patch" THEN version.patch + 1 ELSE 0
        /\ out.result.preRelease = Undefined
        /\ out.result.build = Undefined
        /\ out.result.prefix = version.prefix

C14_Witness ==
    /\ out.op = "bump" /\ out.type = "minor"
    /\ version = SemVer(<<"v">>, 1, 1, 1, <<"r", "c", ".", "1">>,
                        <<"b", "u", "i", "l", "d", ".", "1">>)
    /\ out.result = SemVer(<<"v">>, 1, 2, 0, Undefined, Undefined)

----------------------------------------------------------------------------
(* Properties of the increment engine, continued *)

C18_ReturnsDistinctValue ==
    (out.op \in {"incrementVersion", "incrementVersionSequence"} /\ out.result # Thrown) =>
        /\ version = out.before
        /\ out.object # "version"

(* The kinds the increment type input may name under each scheme. *)
NamedKinds(schemeName) ==
    IF schemeName = "semver" THEN {MAJOR, MINOR, PATCH, PRERELEASE, BUILD, RELEASE}
    ELSE {CALENDAR, MICRO, MODIFIER, RELEASE}

NamedKind(schemeName, text) ==
    {kind \in NamedKinds(schemeName) : toUpperCase(text) = KindText[kind]}

(* C19: getIncrementType turns a text into the kind it spells, whatever    *)
(* the case of its letters, when the kind is one of the scheme's (SemVer:  *)
(* major, minor, patch, prerelease, build, release; CalVer: calendar,      *)
(* micro, modifier, release); every other text fails with the unsupported  *)
(* increment type error that names the text.                               *)
C19_IncrementTypeOfScheme ==
    (out.op \in {"getIncrementType", "getIncrementTypeLabelled"}) =>
        IF NamedKind(scheme, argument) # {}
        THEN out.result \in {Returned(kind) : kind \in NamedKind(scheme, argument)}
        ELSE out.result = Error(<<"Unsupported increment type (">> \o argument \o <<")!">>)

BranchName ==
    IF Len(argument) >= Len(RefsHeads) /\ SubSeq(argument, 1, Len(RefsHeads)) = RefsHeads
    THEN SubSeq(argument, Len(RefsHeads) + 1, Len(argument))
    ELSE argument

(* release/X: one slash only, and `release` in front of it *)
IsReleaseForm(name) ==
    /\ Cardinality({i \in DOMAIN name : name[i] = "/"}) = 1
    /\ Len(name) > Len(ReleaseText)
    /\ SubSeq(name, 1, Len(ReleaseText) + 1) = ReleaseText \o <<"/">>

(* C20: getBranch answers the default branch when the ref names the        *)
(* repository's default branch, a release branch with modifier X exactly   *)
(* when the branch name is the two segments release/X, and fails with an   *)
(* error for every other name.                                             *)
C20_BranchOfRef ==
    (out.op = "getBranch") =>
        out.result =
            IF BranchName = out.default_branch THEN [type |-> "default"]
            ELSE IF IsReleaseForm(BranchName)
                 THEN [type |-> "release",
                       modifier |-> SubSeq(BranchName, Len(ReleaseText) + 2, Len(BranchName))]
                 ELSE InvalidBranchName

C20_Witness ==
    /\ out.op = "getBranch"
    /\ argument = <<"r", "e", "f", "s", "/", "h", "e", "a", "d", "s", "/", "r", "e", "l", "e", "a", "s", "e", "/", "1", "/", "0">>
    /\ out.result = InvalidBranchName

(* C11: when a run is over, the output `created` is set exactly when the   *)
(* run created a release on the remote, and the output `release` is set    *)
(* only when `created` is.                                                 *)
C11_CreatedIffReleaseCreated ==
    (pc = "done") =>
        /\ ("created" \in outputs) <=> (remote.releases > 0)
        /\ ("release" \in outputs) => ("created" \in outputs)

(* C16: when no increment type is given and determineIncrementType finds   *)
(* none, the run is over without a release on the remote, without an       *)
(* uploaded asset, without the output `created` and without a reported     *)
(* failure.                                                                *)
C16_NoIncrementSkips ==
    (pc = "done" /\ input.incrementType = Empty /\ local.increment = Undefined) =>
        /\ remote = NoRemote
        /\ "created" \notin outputs
        /\ failed = <<>>

C16_Witness ==
    /\ pc = "done" /\ input.incrementType = Empty /\ local.increment = Undefined
    /\ input.createRelease /\ input.files = "file"
    /\ local.latestVersion # NoVersion

MessagesOf(raised) == [i \in DOMAIN raised |-> raised[i].error.message]

(* C17 as stated: when a run is over, every error raised during it has     *)
(* been reported through setFailed, once and with its message, and         *)
(* nothing is done after a report.                                         *)
C17_EveryErrorReported ==
    /\ (pc = "done") => failed = MessagesOf(local.raised)
    /\ (failed # <<>>) => (pc = "done" /\ Len(failed) = 1)

ReachedRun == SelectSeq(local.raised, LAMBDA r : r.caught = "run")

(* C17, amended: when a run is over, every error raised during it, other   *)
(* than those caught where they are raised (a release tag that isValid     *)
(* cannot parse, the remote's answer Not Found to the request for the      *)
(* configuration), has been reported through setFailed, once and with its  *)
(* message, and nothing is done after a report.                            *)
C17_UncaughtErrorReported ==
    /\ (pc = "done") => failed = MessagesOf(ReachedRun)
    /\ (failed # <<>>) => (pc = "done" /\ Len(failed) = 1)

C17_Witness ==
    /\ pc = "done"
    /\ failed = <<PathDoesNotExist.message>>
    /\ Len(local.raised) = 2
    /\ remote.releases = 1

(* One kind applied to a running result, as the loop applies it. *)
Applied(running, kinds, i) ==
    IF running = Thrown THEN Thrown
    ELSE IF version.scheme = "calver"
    THEN incrementCalVer(running, kinds[i], i > 1 /\ kinds[i - 1] = MODIFIER, now)
    ELSE incrementSemVer(running, kinds[i],
                         i > 1 /\ kinds[i - 1] \in {PRERELEASE, BUILD}, branch)

(* The running result after the first i kinds of the list. *)
RECURSIVE Running(_, _)
Running(kinds, i) ==
    IF i = 0 THEN version ELSE Applied(Running(kinds, i - 1), kinds, i)

Exceeds(running) == running # Thrown /\ compareVersions(running, version) = 1

(* The first step whose running result is greater than the original, the  *)
(* last step when there is none.                                           *)
LastStep(kinds) ==
    IF \E i \in 1..Len(kinds) : Exceeds(Running(kinds, i))
    THEN CHOOSE i \in 1..Len(kinds) :
            /\ Exceeds(Running(kinds, i))
            /\ \A j \in 1..(i - 1) : ~Exceeds(Running(kinds, j))
    ELSE Len(kinds)

(* C21: incrementVersion with a list of kinds applies them in list order   *)
(* and returns the running result of the first step that is greater than   *)
(* the original version, applying no later kind; the pre-release a         *)
(* PRERELEASE step sets is carried over the core step that follows it: on  *)
(* the default branch 0.1.0 with PRERELEASE, MINOR gives 0.2.0-dev.1 and   *)
(* 0.1.0-dev.2 with PRERELEASE, MAJOR gives 0.1.0-dev.3.                   *)
C21_StopsAtFirstGreater ==
    (out.op = "incrementVersionSequence") =>
        /\ out.result = Running(out.type, LastStep(out.type))
        /\ (/\ branch = "default" /\ out.type = <<PRERELEASE, MINOR>>
            /\ version = SemVer(prefix, 0, 1, 0, Undefined, Undefined))
           => out.result = SemVer(prefix, 0, 2, 0, <<"d", "e", "v", ".", "1">>, Undefined)
        /\ (/\ branch = "default" /\ out.type = <<PRERELEASE, MAJOR>>
            /\ version = SemVer(prefix, 0, 1, 0, <<"d", "e", "v", ".", "2">>, Undefined))
           => out.result = SemVer(prefix, 0, 1, 0, <<"d", "e", "v", ".", "3">>, Undefined)

C21_Witness ==
    /\ out.op = "incrementVersionSequence"
    /\ branch = "default" /\ out.type = <<PRERELEASE, MAJOR>>
    /\ version = SemVer(prefix, 0, 1, 0, <<"d", "e", "v", ".", "2">>, Undefined)
    /\ out.result = SemVer(prefix, 0, 1, 0, <<"d", "e", "v", ".", "3">>, Undefined)

Key(identifier) == identifierKeyValue(identifier).key

(* C22: with equal cores and equal builds, two pre-releases of the form    *)
(* key.number with different keys compare as equal whatever their          *)
(* numbers, and two with the same key are ordered by their numbers.        *)
C22_DifferentKeysCompareEqual ==
    (/\ Sorted /\ SameCore(version, out.b) /\ version.build = out.b.build
     /\ Value(version.preRelease) # -1 /\ Value(out.b.preRelease) # -1) =>
        IF Key(version.preRelease) # Key(out.b.preRelease) THEN out.result = 0
        ELSE out.result =
                IF Value(version.preRelease) = Value(out.b.preRelease) THEN 0
                ELSE IF Value(version.preRelease) > Value(out.b.preRelease) THEN 1 ELSE -1

(* The identifier with its number counted up by one and its key kept; the  *)
(* first identifier when there is none.                                    *)
Counted(identifier, first) ==
    IF identifier = Undefined THEN first
    ELSE Key(identifier) \o NatToStr(Value(identifier) + 1)

Numbered(identifier) == Value(identifier) # -1

BumpedPreRelease ==
    [version EXCEPT !.preRelease = Counted(version.preRelease, <<"r", "c", ".", "1">>),
                    !.build = Undefined]

BumpedBuild ==
    [version EXCEPT !.build = Counted(version.build, <<"b", "u", "i", "l", "d", ".", "1">>)]

(* C27 as stated: bumping the pre-release gives rc.1 when there is none    *)
(* and otherwise counts its number up by one, keeping the key, and clears  *)
(* the build; bumping the build gives build.1 when there is none and       *)
(* otherwise counts its number up by one, leaving pre-release and core.    *)
C27_BumpCountsIdentifier ==
    /\ (out.op = "bump" /\ out.type = "preRelease") => out.result = BumpedPreRelease
    /\ (out.op = "bump" /\ out.type = "build") => out.result = BumpedBuild

(* C27, amended: as stated when the identifier is absent or of the form    *)
(* key.number; bumping a present identifier of any other form fails with   *)
(* an error.                                                               *)
C27_BumpCountsNumberedIdentifier ==
    /\ (out.op = "bump" /\ out.type = "preRelease") =>
            out.result = IF version.preRelease = Undefined \/ Numbered(version.preRelease)
                         THEN BumpedPreRelease ELSE Thrown
    /\ (out.op = "bump" /\ out.type = "build") =>
            out.result = IF version.build = Undefined \/ Numbered(version.build)
                         THEN BumpedBuild ELSE Thrown

C27_Witness ==
    /\ out.op = "bump" /\ out.type = "preRelease"
    /\ version = SemVer(<<"v">>, 1, 0, 0, <<"d", "e", "v", ".", "2">>, <<"b", "u", "i", "l", "d", ".", "1">>)
    /\ out.result = SemVer(<<"v">>, 1, 0, 0, <<"d", "e", "v", ".", "3">>, Undefined)

(* C28: sortSemVer is a consistent comparator: a version compares equal    *)
(* to itself, swapping the sides negates the result, and a <= b with       *)
(* b <= c gives a <= c, also for identifiers that are absent or not of the *)
(* form key.number.                                                        *)
C28_ConsistentComparator ==
    Sorted =>
        /\ sortSemVer(version, version) = 0
        /\ out.result = -sortSemVer(out.b, version)
        /\ \A c \in SemVerPool(prefix) :
                (out.result <= 0 /\ sortSemVer(out.b, c) <= 0) => sortSemVer(version, c) <= 0

C28_Witness ==
    /\ Sorted /\ SameCore(version, out.b)
    /\ version.preRelease = <<"a", "l", "p", "h", "a">> /\ version.build = <<"e", "x", "p">>
    /\ out.b.preRelease = <<"r", "c", ".", "1">> /\ out.b.build = Undefined
    /\ out.result = 1

----------------------------------------------------------------------------
(* Properties of a run, continued *)

Parsable(tag) == createVersion(scheme, tag, prefix) # Thrown

(* The run has listed the releases and met a tag that is no version. *)
MetUnparsableTag == \E i \in DOMAIN local.raised : local.raised[i].caught = "isValid"

(* C24 as stated: a release whose tag cannot be parsed as a version of the *)
(* scheme ends the run with the parse error.                               *)
C24_UnparsableTagIsFatal ==
    MetUnparsableTag => (pc = "done" /\ failed = <<CannotParse(scheme).message>>)

(* C24, amended: a release whose tag cannot be parsed as a version of the  *)
(* scheme is left out: no parse error is reported for it and the run goes  *)
(* on with the remaining releases, the latest of which, when there is      *)
(* one, becomes the previous version.                                      *)
C24_UnparsableTagIsSkipped ==
    MetUnparsableTag =>
        /\ \A i \in DOMAIN failed : failed[i] # CannotParse(scheme).message
        /\ IF \E i \in DOMAIN input.tags : Parsable(input.tags[i])
           THEN \E i \in DOMAIN input.tags :
                    /\ Parsable(input.tags[i])
                    /\ local.latestRef = input.tags[i]
                    /\ local.latestVersion = createVersion(scheme, input.tags[i], prefix)
           ELSE local.latestRef \in {Undefined, InitialCommit}

C24_Witness ==
    /\ MetUnparsableTag
    /\ input.tags = <<<<"0", ".", "1", ".", "0">>, <<"n", "i", "g", "h", "t", "l", "y">>>>
    /\ local.latestRef = <<"0", ".", "1", ".", "0">>
    /\ pc = "done" /\ "created" \in outputs

(* C25: when the remote has no release that is a version of the scheme,    *)
(* the previous version of the run is the initial version (0.0.0 with the  *)
(* prefix for SemVer), the changes are asked since the initial commit,     *)
(* and the new version is the increment of the initial version.            *)
C25_StartsFromInitialVersion ==
    (/\ local.set /\ local.latestVersion # NoVersion
     /\ \A i \in DOMAIN input.tags : ~Parsable(input.tags[i])) =>
        /\ local.latestRef = InitialCommit
        /\ local.latestVersion = IF scheme = "semver"
                                 THEN SemVer(prefix, 0, 0, 0, Undefined, Undefined)
                                 ELSE CalVer(prefix, 0, 0, 0, <<>>)
        /\ local.since \in {Undefined, InitialCommit}
        /\ (local.newVersion # NoVersion) =>
                local.newVersion = incrementVersion(local.latestVersion, local.increment,
                                                    isPrerelease, branch, prefix, now)

C25_Witness ==
    /\ pc = "done" /\ prefix = <<"v">> /\ scheme = "semver"
    /\ local.since = InitialCommit
    /\ local.latestVersion = SemVer(<<"v">>, 0, 0, 0, Undefined, Undefined)
    /\ local.newVersion = SemVer(<<"v">>, 0, 1, 0, Undefined, Undefined)

----------------------------------------------------------------------------
(* Properties of getLatestRelease *)

(* The releases that count: the tag is a version of the scheme with the    *)
(* prefix and, on a release branch, starts with the modifier.              *)
Candidates ==
    {i \in DOMAIN input.tags :
        /\ Parsable(input.tags[i])
        /\ branch = "release" => startsWith(input.tags[i], input.modifier)}

(* C23: getLatestRelease answers a candidate that no candidate exceeds     *)
(* under compareVersions; without candidate it fails with an error on a    *)
(* release branch and answers none on the default branch.                  *)
C23_LatestIsMaximalCandidate ==
    (out.op = "getLatestRelease") =>
        IF Candidates = {}
        THEN out.result = IF branch = "release" THEN NoReleasesFound
                          ELSE [tag_name |-> Undefined]
        ELSE \E i \in Candidates :
                /\ out.result = [tag_name |-> input.tags[i]]
                /\ \A j \in Candidates :
                        compareTags(scheme, prefix, input.tags[j], input.tags[i]) <= 0

C23_Witness ==
    /\ out.op = "getLatestRelease"
    /\ branch = "release" /\ input.modifier = <<"0", ".", "1">>
    /\ input.tags = <<<<"0", ".", "1", ".", "1">>, <<"0", ".", "2", ".", "0">>>>
    /\ out.result = [tag_name |-> <<"0", ".", "1", ".", "1">>]

Orders(n) == {p \in [1..n -> 1..n] : \A i, j \in 1..n : p[i] = p[j] => i = j}

(* C29: the release getLatestRelease answers is the same in whatever order *)
(* the remote lists the same releases.                                     *)
C29_ListingOrderIsIrrelevant ==
    (out.op = "getLatestRelease") =>
        \A p \in Orders(Len(input.tags)) :
            getLatestRelease(branch, input.modifier, scheme,
                             [i \in DOMAIN input.tags |-> input.tags[p[i]]], prefix)
                = out.result

----------------------------------------------------------------------------
(* Properties of createRelease *)

Published == remote.releases > 0

----------------------------------------------------------------------------
(* Properties of updateAssets *)

LabelsOnRelease == {a.label : a \in remote.onRelease}

(* An upload that the remote takes. *)
Uploads == pc = "uploadReleaseAsset" /\ remote'.nextId # remote.nextId

(* C26: whenever updateAssets uploads an asset, no asset of that label is  *)
(* on the release, and updateAssets deletes no asset id twice.             *)
C26_DeletesBeforeUpload ==
    [][/\ Uploads => local.assets[local.i].label \notin LabelsOnRelease
       /\ \A m, n \in DOMAIN local'.deleted : local'.deleted[m] = local'.deleted[n] => m = n]_vars

====
